---------------------------- MODULE Spec2Model ----------------------------
(***************************************************************************)
(* Model of the schedule ingestion pipeline of the school-schedule bot:    *)
(* fetch (parser/nika_parser.py) -> digest -> compare -> synchronise ->    *)
(* commit -> notify (services/updater.py), over the SQLAlchemy models of   *)
(* database/models.py.                                                     *)
(*                                                                         *)
(* JSON objects are sequences of <<key, value>> pairs in the order of the  *)
(* payload text (a Python dict keeps insertion order), so that key order   *)
(* is something the digest and the normalizer can depend on.               *)
(***************************************************************************)
EXTENDS Integers, Sequences, FiniteSets, TLC

(***************************************************************************)
(* Strings.  TLC cannot look inside a string, so the characters of every   *)
(* string of the bounded domain are tabulated.                             *)
(***************************************************************************)
Chars(s) ==
    CASE s = ""       -> << >>
      [] s = "1"      -> <<"1">>
      [] s = "2"      -> <<"2">>
      [] s = "5"      -> <<"5">>
      [] s = "7"      -> <<"7">>
      [] s = "9"      -> <<"9">>
      [] s = "60"     -> <<"6", "0">>
      [] s = "61"     -> <<"6", "1">>
      [] s = "036"    -> <<"0", "3", "6">>
      [] s = "044"    -> <<"0", "4", "4">>
      [] s = "045"    -> <<"0", "4", "5">>
      [] s = "005"    -> <<"0", "0", "5">>
      [] s = "101"    -> <<"1", "0", "1">>
      [] s = "512"    -> <<"5", "1", "2">>
      [] s = "x1"     -> <<"x", "1">>
      [] s = "F"      -> <<"F">>
      [] s = "s"      -> <<"s">>
      [] s = "t"      -> <<"t">>
      [] s = "r"      -> <<"r">>
      [] s = "99"     -> <<"9", "9">>
      [] s = "100"    -> <<"1", "0", "0">>
      [] s = "800"    -> <<"8", "0", "0">>
      [] s = "007"    -> <<"0", "0", "7">>
      [] s = "A1B22"  -> <<"A", "1", "B", "2", "2">>
      [] s = "10A"    -> <<"1", "0", "A">>
      [] s = "9B"     -> <<"9", "B">>
      [] s = "B"      -> <<"B">>
      [] s = "Math"   -> <<"M", "a", "t", "h">>
      [] s = "Art"    -> <<"A", "r", "t">>
      [] s = "Ivanov" -> <<"I", "v", "a", "n", "o", "v">>
      [] s = "Petrov" -> <<"P", "e", "t", "r", "o", "v">>
      [] s = "20.01.2026" -> <<"2", "0", ".", "0", "1", ".", "2", "0", "2", "6">>
      [] s = "CLASSES"        -> <<"C", "L", "A", "S", "S", "E", "S">>
      [] s = "CLASS_SCHEDULE" -> <<"C", "L", "A", "S", "S", "_", "S", "C", "H", "E", "D", "U", "L", "E">>
      [] s = "TEACHERS"       -> <<"T", "E", "A", "C", "H", "E", "R", "S">>

\* The characters in ascending code point order (what str comparison uses).
Alphabet ==
    <<".", "0", "1", "2", "3", "4", "5", "6", "7", "8", "9",
      "A", "B", "C", "D", "E", "F", "H", "I", "L", "M", "P", "R", "S", "T", "U", "_",
      "a", "e", "h", "n", "o", "r", "s", "t", "v", "x">>

CharCode(c) == CHOOSE i \in 1..Len(Alphabet) : Alphabet[i] = c

Digits == {"0", "1", "2", "3", "4", "5", "6", "7", "8", "9"}

DigitVal(c) == CharCode(c) - CharCode("0")

\* Python's a < b on str: lexicographic by code point, a proper prefix first.
RECURSIVE SeqLess(_, _)
SeqLess(a, b) ==
    IF b = << >> THEN FALSE
    ELSE IF a = << >> THEN TRUE
    ELSE IF CharCode(Head(a)) # CharCode(Head(b))
         THEN CharCode(Head(a)) < CharCode(Head(b))
    ELSE SeqLess(Tail(a), Tail(b))

StrLess(a, b) == SeqLess(Chars(a), Chars(b))

\* str.isdigit() on the strings of the domain (ASCII only).
IsDigitStr(s) == Chars(s) # << >> /\ \A i \in 1..Len(Chars(s)) : Chars(s)[i] \in Digits

\* int() of a sequence of decimal digits.
RECURSIVE DigitsToInt(_)
DigitsToInt(cs) ==
    IF cs = << >> THEN 0
    ELSE 10 * DigitsToInt(SubSeq(cs, 1, Len(cs) - 1)) + DigitVal(cs[Len(cs)])

ParseInt(s) == DigitsToInt(Chars(s))

\* re.search(r'\d+', s): the first maximal run of digits, as characters;
\* << >> when there is no digit.
FirstDigitRun(s) ==
    LET cs == Chars(s)
        starts == {i \in 1..Len(cs) : cs[i] \in Digits}
    IN  IF starts = {} THEN << >>
        ELSE LET b == CHOOSE i \in starts : \A j \in starts : i <= j
                 e == CHOOSE i \in b..Len(cs) :
                        /\ \A j \in b..i : cs[j] \in Digits
                        /\ (i = Len(cs) \/ cs[i + 1] \notin Digits)
             IN  SubSeq(cs, b, e)

(***************************************************************************)
(* JSON objects as ordered sequences of pairs.                             *)
(***************************************************************************)
Keys(m) == {m[i][1] : i \in 1..Len(m)}

HasKey(m, k) == k \in Keys(m)

\* dict.get(k, default)
Get(m, k, default) ==
    IF HasKey(m, k) THEN m[CHOOSE i \in 1..Len(m) : m[i][1] = k][2] ELSE default

RECURSIVE Flatten(_)
Flatten(ss) == IF ss = << >> THEN << >> ELSE Head(ss) \o Flatten(Tail(ss))

\* SortByKey left out (json.dumps without sort_keys): text order is kept.
Unsorted(m) == m

\* sorted(m.items()) by key: insertion sort under StrLess.
RECURSIVE InsertByKey(_, _)
InsertByKey(sorted, kv) ==
    IF sorted = << >> THEN <<kv>>
    ELSE IF StrLess(kv[1], Head(sorted)[1]) THEN <<kv>> \o sorted
    ELSE <<Head(sorted)>> \o InsertByKey(Tail(sorted), kv)

RECURSIVE SortByKey(_)
SortByKey(m) ==
    IF m = << >> THEN << >>
    ELSE InsertByKey(SortByKey(SubSeq(m, 1, Len(m) - 1)), m[Len(m)])

(***************************************************************************)
(* The raw payload (the dict json.loads returns).  A top-level section is  *)
(* absent, JSON null, or an object.  Inside the sections a value the code  *)
(* type-tests carries its kind: a class schedule and a date map are an     *)
(* object or something else, an id field is a list or a bare string.       *)
(***************************************************************************)
Absent == [kind |-> "absent", items |-> << >>]

Null == [kind |-> "null", items |-> << >>]

Obj(items) == [kind |-> "map", items |-> items]

NotObj == [kind |-> "other", items |-> << >>]

Lst(items) == [kind |-> "list", items |-> items]

Str(s) == [kind |-> "str", items |-> <<s>>]

\* A slot entry that is not an object (JSON null): the one pair carries a
\* key no payload uses, so that it compares with the slot objects.
NullSlot == << <<"<not a map>", Lst(<< >>)>> >>

RawData(classes, teachers, schedule, exchange, subjects, rooms, extra) ==
    [CLASSES |-> classes, TEACHERS |-> teachers, CLASS_SCHEDULE |-> schedule,
     CLASS_EXCHANGE |-> exchange, SUBJECTS |-> subjects, ROOMS |-> rooms,
     extra |-> extra]

\* bool(raw_data): a dict is falsy exactly when it has no key at all.
IsEmptyDict(raw) ==
    /\ raw.CLASSES.kind = "absent" /\ raw.TEACHERS.kind = "absent"
    /\ raw.CLASS_SCHEDULE.kind = "absent" /\ raw.CLASS_EXCHANGE.kind = "absent"
    /\ raw.SUBJECTS.kind = "absent" /\ raw.ROOMS.kind = "absent"
    /\ ~raw.extra

(***************************************************************************)
(* json.dumps(content_to_hash, sort_keys=True) as a sequence of tokens,    *)
(* and the md5 digest of it.                                               *)
(***************************************************************************)
DumpStr(s) == <<"str", s>>

\* A JSON array of strings, in array order.
DumpList(l) ==
    <<"[">> \o Flatten([i \in 1..Len(l) |->
                 (IF i > 1 THEN <<",">> ELSE << >>) \o DumpStr(l[i])]) \o <<"]">>

\* A JSON object: the items sorted by key, each value written by Dump.
DumpObject(m, Dump(_)) ==
    LET s == SortByKey(m)
    IN  <<"{">> \o Flatten([i \in 1..Len(s) |->
                 (IF i > 1 THEN <<",">> ELSE << >>)
                     \o DumpStr(s[i][1]) \o <<":">> \o Dump(s[i][2])]) \o <<"}">>

DumpIds(v) == IF v.kind = "list" THEN DumpList(v.items) ELSE DumpStr(v.items[1])

DumpSlotData(sd) == IF sd = NullSlot THEN <<"null">> ELSE DumpObject(sd, DumpIds)

DumpClassSchedule(cs) ==
    IF cs.kind = "map" THEN DumpObject(cs.items, DumpSlotData) ELSE <<"other">>

DumpFullSchedule(fs) == DumpObject(fs, DumpClassSchedule)

\* raw_data.get(KEY) is None for an absent section and for a JSON null.
DumpSection(sec, Dump(_)) ==
    IF sec.kind = "map" THEN DumpObject(sec.items, Dump) ELSE <<"null">>

JsonDumps(raw) ==
    DumpObject(
        << <<"CLASSES", [dump |-> DumpSection(raw.CLASSES, DumpStr)]>>,
           <<"CLASS_SCHEDULE", [dump |-> DumpSection(raw.CLASS_SCHEDULE, DumpFullSchedule)]>>,
           <<"TEACHERS", [dump |-> DumpSection(raw.TEACHERS, DumpStr)]>> >>,
        LAMBDA v : v.dump)

DumpDateMap(dm) ==
    IF dm.kind = "map"
    THEN DumpObject(dm.items, LAMBDA lm : DumpObject(lm, DumpSlotData))
    ELSE <<"other">>

\* The digest taken over the substitutions as well.
NewHashWithExchange(raw) ==
    <<"md5">> \o JsonDumps(raw) \o DumpSection(raw.CLASS_EXCHANGE, DumpDateMap)

\* hashlib.md5(...).hexdigest(): taken as collision-free on the bounded
\* domain, and never the empty string.
Md5Hex(tokens) == <<"md5">> \o tokens

\* NewHash with SUBJECTS and ROOMS added to content_to_hash.
NewHashWithLookups(raw) ==
    <<"md5">> \o JsonDumps(raw) \o DumpSection(raw.SUBJECTS, DumpStr)
              \o DumpSection(raw.ROOMS, DumpStr)

NewHash(raw) == Md5Hex(JsonDumps(raw))

(***************************************************************************)
(* The normalizer of NikaParser.  A result is [ok, rows], where ok is      *)
(* FALSE when the Python code raises (None.items(), None.get) instead of   *)
(* returning.                                                              *)
(***************************************************************************)
Returned(rows) == [ok |-> TRUE, rows |-> rows]

Raised == [ok |-> FALSE, rows |-> << >>]

\* Python's None in a nullable text column.
PyNone == "<None>"

\* ", ".join(names)
RECURSIVE Join(_)
Join(names) ==
    IF names = << >> THEN ""
    ELSE IF Len(names) = 1 THEN names[1]
    ELSE names[1] \o ", " \o Join(Tail(names))

\* GradeOf with re.match in place of re.search: only a leading run counts.
GradeOfLeading(cname) ==
    IF Chars(cname) = << >> \/ Chars(cname)[1] \notin Digits THEN 0
    ELSE DigitsToInt(FirstDigitRun(cname))

\* int(match.group()) of the first digit run of the name, 0 without a digit.
GradeOf(cname) ==
    IF FirstDigitRun(cname) = << >> THEN 0 ELSE DigitsToInt(FirstDigitRun(cname))

normalize_classes(raw) ==
    IF raw.CLASSES.kind = "absent" THEN Returned(<< >>)
    ELSE IF raw.CLASSES.kind = "null" THEN Raised
    ELSE LET m == raw.CLASSES.items
         IN  Returned([i \in 1..Len(m) |->
                 [id |-> m[i][1], name |-> m[i][2], grade |-> GradeOf(m[i][2])]])

normalize_teachers(raw) ==
    IF raw.TEACHERS.kind = "absent" THEN Returned(<< >>)
    ELSE IF raw.TEACHERS.kind = "null" THEN Raised
    ELSE LET m == SelectSeq(raw.TEACHERS.items, LAMBDA kv : kv[2] # "")
         IN  Returned([i \in 1..Len(m) |-> [id |-> m[i][1], name |-> m[i][2]]])

\* raw_data.get(KEY, {}): the section's object, {} when absent, None when null.
Lookup(sec) == IF sec.kind = "null" THEN Null ELSE Obj(sec.items)

\* What `for i in ids if i` iterates: the non-empty elements of a list, or
\* the characters of a bare string.
Truthy(ids) ==
    SelectSeq(IF ids.kind = "list" THEN ids.items ELSE Chars(ids.items[1]),
              LAMBDA i : i # "")

\* get_names that leaves out the ids the table does not hold.
get_namesFound(ids, lookup) ==
    Join([i \in 1..Len(SelectSeq(Truthy(ids), LAMBDA k : HasKey(lookup.items, k))) |->
             Get(lookup.items,
                 SelectSeq(Truthy(ids), LAMBDA k : HasKey(lookup.items, k))[i], "")])

\* get_names of normalize_schedule.
get_names(ids, lookup) ==
    Join([i \in 1..Len(Truthy(ids)) |->
             Get(lookup.items, Truthy(ids)[i], Truthy(ids)[i])])

\* lookup.get(...) on None raises; it is reached when some id is looked up.
NamesRaise(ids, lookup) == lookup.kind = "null" /\ Truthy(ids) # << >>

\* The slots of one class schedule the loop turns into lessons.
LessonSlots(class_schedule) ==
    IF class_schedule.kind # "map" THEN << >>
    ELSE SelectSeq(class_schedule.items, LAMBDA kv : IsDigitStr(kv[1]))

\* LessonOf with the source's 1-based day kept.
LessonOfOneBased(class_id, slot, raw) ==
    [class_id |-> class_id,
     day      |-> ParseInt(slot[1]) \div 100,
     number   |-> ParseInt(slot[1]) % 100,
     subject  |-> get_names(Get(slot[2], "s", Lst(<< >>)), Lookup(raw.SUBJECTS)),
     teacher  |-> get_names(Get(slot[2], "t", Lst(<< >>)), Lookup(raw.TEACHERS)),
     room     |-> get_names(Get(slot[2], "r", Lst(<< >>)), Lookup(raw.ROOMS))]

LessonOf(class_id, slot, raw) ==
    [class_id |-> class_id,
     day      |-> (ParseInt(slot[1]) \div 100) - 1,
     number   |-> ParseInt(slot[1]) % 100,
     subject  |-> get_names(Get(slot[2], "s", Lst(<< >>)), Lookup(raw.SUBJECTS)),
     teacher  |-> get_names(Get(slot[2], "t", Lst(<< >>)), Lookup(raw.TEACHERS)),
     room     |-> get_names(Get(slot[2], "r", Lst(<< >>)), Lookup(raw.ROOMS))]

\* slot_data.get(...) raises on a slot entry that is not a dict.
LessonRaises(slot, raw) ==
    \/ slot[2] = NullSlot
    \/ NamesRaise(Get(slot[2], "s", Lst(<< >>)), Lookup(raw.SUBJECTS))
    \/ NamesRaise(Get(slot[2], "t", Lst(<< >>)), Lookup(raw.TEACHERS))
    \/ NamesRaise(Get(slot[2], "r", Lst(<< >>)), Lookup(raw.ROOMS))

normalize_schedule(raw) ==
    IF raw.CLASS_SCHEDULE.kind # "map" \/ raw.CLASS_SCHEDULE.items = << >>
    THEN Returned(<< >>)
    ELSE LET full_schedule == raw.CLASS_SCHEDULE.items[1][2]
             perClass == [c \in 1..Len(full_schedule) |->
                            LessonSlots(full_schedule[c][2])]
         IN  IF \E c \in 1..Len(full_schedule) : \E k \in 1..Len(perClass[c]) :
                    LessonRaises(perClass[c][k], raw)
             THEN Raised
             ELSE Returned(Flatten([c \in 1..Len(full_schedule) |->
                      [k \in 1..Len(perClass[c]) |->
                          LessonOf(full_schedule[c][1], perClass[c][k], raw)]]))

\* get_names of normalize_substitutions: a bare value is looked up whole.
sub_get_names(ids, lookup) ==
    IF ids.kind = "list" THEN get_names(ids, lookup)
    ELSE Get(lookup.items, ids.items[1], ids.items[1])

SubNamesRaise(ids, lookup) ==
    lookup.kind = "null" /\ (ids.kind = "list" => Truthy(ids) # << >>)

\* IsCancelled taking the list ["F"] for the sentinel too.
IsCancelledLoose(slot_data) ==
    Get(slot_data, "s", Lst(<< >>)) \in {Str("F"), Lst(<<"F">>)}

\* sub_ids == "F"
IsCancelled(slot_data) == Get(slot_data, "s", Lst(<< >>)) = Str("F")

SubOf(class_id, date_str, slot, raw) ==
    LET cancelled == IsCancelled(slot[2])
    IN  [class_id      |-> class_id,
         date          |-> date_str,
         lesson_number |-> ParseInt(slot[1]),
         subject_name  |-> IF cancelled THEN PyNone
                           ELSE sub_get_names(Get(slot[2], "s", Lst(<< >>)),
                                              Lookup(raw.SUBJECTS)),
         teacher_name  |-> IF cancelled THEN PyNone
                           ELSE sub_get_names(Get(slot[2], "t", Lst(<< >>)),
                                              Lookup(raw.TEACHERS)),
         room_number   |-> IF cancelled THEN PyNone
                           ELSE sub_get_names(Get(slot[2], "r", Lst(<< >>)),
                                              Lookup(raw.ROOMS)),
         is_cancelled  |-> cancelled]

SubRaises(slot, raw) ==
    \/ slot[2] = NullSlot
    \/ /\ ~IsCancelled(slot[2])
       /\ \/ SubNamesRaise(Get(slot[2], "s", Lst(<< >>)), Lookup(raw.SUBJECTS))
          \/ SubNamesRaise(Get(slot[2], "t", Lst(<< >>)), Lookup(raw.TEACHERS))
          \/ SubNamesRaise(Get(slot[2], "r", Lst(<< >>)), Lookup(raw.ROOMS))

\* The (date, slot) pairs of one class's date map the loops reach.
SubSlots(date_map) ==
    IF date_map.kind # "map" THEN << >>
    ELSE Flatten([d \in 1..Len(date_map.items) |->
             LET slots == SelectSeq(date_map.items[d][2],
                                    LAMBDA kv : IsDigitStr(kv[1]))
             IN  [k \in 1..Len(slots) |-> <<date_map.items[d][1], slots[k]>>]])

normalize_substitutions(raw) ==
    IF raw.CLASS_EXCHANGE.kind = "absent" THEN Returned(<< >>)
    ELSE IF raw.CLASS_EXCHANGE.kind = "null" THEN Raised
    ELSE LET exchanges == raw.CLASS_EXCHANGE.items
             perClass == [c \in 1..Len(exchanges) |-> SubSlots(exchanges[c][2])]
         IN  IF \E c \in 1..Len(exchanges) : \E k \in 1..Len(perClass[c]) :
                    SubRaises(perClass[c][k][2], raw)
             THEN Raised
             ELSE Returned(Flatten([c \in 1..Len(exchanges) |->
                      [k \in 1..Len(perClass[c]) |->
                          SubOf(exchanges[c][1], perClass[c][k][1],
                                perClass[c][k][2], raw)]]))

(***************************************************************************)
(* The store (database/models.py).  Tables are sequences of rows in rowid  *)
(* order.  Class.name and Teacher.name are UNIQUE, external_id is not;     *)
(* SQLite checks a constraint at each statement.                           *)
(***************************************************************************)
NoMeta == [present |-> FALSE, value |-> << >>]

EmptyStore ==
    [classes |-> << >>, teachers |-> << >>, schedules |-> << >>,
     substitutions |-> << >>, meta |-> NoMeta]

\* The next autoincrement id of a table: one above the largest rowid.
NextId(table) ==
    IF table = << >> THEN 1
    ELSE 1 + (CHOOSE m \in {table[i].id : i \in 1..Len(table)} :
                  \A i \in 1..Len(table) : table[i].id <= m)

Flushed(table) == [ok |-> TRUE, table |-> table]

IntegrityError == [ok |-> FALSE, table |-> << >>]

\* existing_classes = {c.external_id: c for c in ...}: the last row wins.
ExistingClass(table, ext_id) ==
    LET hits == {i \in 1..Len(table) : table[i].external_id = ext_id}
    IN  IF hits = {} THEN 0 ELSE CHOOSE i \in hits : \A j \in hits : j <= i

\* NameTaken without the UNIQUE constraint on name: no name is refused.
NameNeverTaken(table, name, except) == FALSE

\* UNIQUE(name): another row of the table has the name.
NameTaken(table, name, except) ==
    \E j \in 1..Len(table) : j # except /\ table[j].name = name

\* FlushClassUpdates with no UPDATE emitted: stored names and grades stay.
NoClassUpdates(table, i, normalized) == Flushed(table)

\* The UPDATE statements of the class flush, in primary-key order: one per
\* loaded class whose name or grade the loop changed.
RECURSIVE FlushClassUpdates(_, _, _)
FlushClassUpdates(table, i, normalized) ==
    IF i > Len(table) THEN Flushed(table)
    ELSE LET hits == {n \in 1..Len(normalized) :
                         /\ normalized[n].id = table[i].external_id
                         /\ ExistingClass(table, normalized[n].id) = i}
         IN  IF hits = {} THEN FlushClassUpdates(table, i + 1, normalized)
             ELSE LET new == normalized[CHOOSE n \in hits : TRUE]
                  IN  IF table[i].name = new.name /\ table[i].grade_level = new.grade
                      THEN FlushClassUpdates(table, i + 1, normalized)
                      ELSE IF NameTaken(table, new.name, i)
                      THEN IntegrityError
                      ELSE FlushClassUpdates(
                               [table EXCEPT ![i].name = new.name,
                                             ![i].grade_level = new.grade],
                               i + 1, normalized)

\* The INSERT statements of the class flush, in session.add order.
RECURSIVE FlushClassInserts(_, _)
FlushClassInserts(table, pending) ==
    IF pending = << >> THEN Flushed(table)
    ELSE IF NameTaken(table, Head(pending).name, 0) THEN IntegrityError
    ELSE FlushClassInserts(
             Append(table, [id |-> NextId(table), name |-> Head(pending).name,
                            external_id |-> Head(pending).id,
                            grade_level |-> Head(pending).grade]),
             Tail(pending))

\* SyncClasses as a full replace: the table is rebuilt from the payload.
ReplaceClasses(classes, normalized) == FlushClassInserts(<< >>, normalized)

\* update_database step 1: upsert the classes and flush.
SyncClasses(classes, normalized) ==
    LET pending == SelectSeq(normalized,
                             LAMBDA c : ExistingClass(classes, c.id) = 0)
        updated == FlushClassUpdates(classes, 1, normalized)
    IN  IF updated.ok THEN FlushClassInserts(updated.table, pending)
        ELSE IntegrityError

\* ClassMap read before any id is allocated: every class maps to row 1.
ClassMapUnallocated(classes, normalized) ==
    [n \in 1..Len(normalized) |-> <<normalized[n].id, 1>>]

\* db_class_map turned into class_map: external_id -> id of the classes of
\* this payload, as pairs.
ClassMap(classes, normalized) ==
    [n \in 1..Len(normalized) |->
        <<normalized[n].id, classes[ExistingClass(classes, normalized[n].id)].id>>]

RECURSIVE FlushTeacherInserts(_, _)
FlushTeacherInserts(table, pending) ==
    IF pending = << >> THEN Flushed(table)
    ELSE IF NameTaken(table, Head(pending).name, 0) THEN IntegrityError
    ELSE FlushTeacherInserts(
             Append(table, [id |-> NextId(table), name |-> Head(pending).name,
                            external_id |-> Head(pending).id]),
             Tail(pending))

\* SyncTeachers as an upsert: a stored teacher takes the payload's name.
UpsertTeachers(teachers, normalized) ==
    LET renamed == [i \in 1..Len(teachers) |->
            LET hits == {n \in 1..Len(normalized) :
                            normalized[n].id = teachers[i].external_id}
            IN  IF hits = {} THEN teachers[i]
                ELSE [teachers[i] EXCEPT
                         !.name = normalized[CHOOSE n \in hits : TRUE].name]]
    IN  FlushTeacherInserts(renamed,
            SelectSeq(normalized, LAMBDA t :
                t.id \notin {teachers[i].external_id : i \in 1..Len(teachers)}))

\* SyncTeachers without the existing_teacher_ids test.
InsertAllTeachers(teachers, normalized) ==
    FlushTeacherInserts(teachers, normalized)

\* update_database step 1.5: insert the teachers whose external_id is new.
SyncTeachers(teachers, normalized) ==
    LET existing_teacher_ids ==
            {teachers[i].external_id : i \in 1..Len(teachers)}
    IN  FlushTeacherInserts(teachers,
            SelectSeq(normalized, LAMBDA t : t.id \notin existing_teacher_ids))

\* ScheduleRows without the `if str(l.class_id) in class_map` filter.
AllScheduleRows(schedule_data, class_map) ==
    [i \in 1..Len(schedule_data) |->
        [class_id |-> Get(class_map, schedule_data[i].class_id, 0),
         day_of_week |-> schedule_data[i].day,
         lesson_number |-> schedule_data[i].number,
         subject_name |-> schedule_data[i].subject,
         teacher_name |-> schedule_data[i].teacher,
         room_number |-> schedule_data[i].room,
         is_substitution |-> FALSE]]

\* The rows of insert(Schedule).values([...]): the lessons whose class is
\* in class_map.
ScheduleRows(schedule_data, class_map) ==
    LET kept == SelectSeq(schedule_data, LAMBDA l : HasKey(class_map, l.class_id))
    IN  [i \in 1..Len(kept) |->
            [class_id |-> Get(class_map, kept[i].class_id, 0),
             day_of_week |-> kept[i].day,
             lesson_number |-> kept[i].number,
             subject_name |-> kept[i].subject,
             teacher_name |-> kept[i].teacher,
             room_number |-> kept[i].room,
             is_substitution |-> FALSE]]

\* The insert is executed when schedule_data is not empty.  With every
\* lesson filtered out the statement carries no row values, and the one row
\* it then inserts violates NOT NULL on class_id.
InsertSchedule(schedules, schedule_data, class_map) ==
    IF schedule_data = << >> THEN Flushed(schedules)
    ELSE IF ScheduleRows(schedule_data, class_map) = << >> THEN IntegrityError
    ELSE Flushed(schedules \o ScheduleRows(schedule_data, class_map))

\* ValidSubs without the `if internal_cid` filter.
AllSubs(subs_data, class_map) ==
    [i \in 1..Len(subs_data) |->
        [subs_data[i] EXCEPT !.class_id = Get(class_map, subs_data[i].class_id, 0)]]

\* valid_subs: the substitutions whose class is in class_map (ids are >= 1,
\* so a found id is truthy), with class_id replaced by the internal id.
ValidSubs(subs_data, class_map) ==
    LET kept == SelectSeq(subs_data, LAMBDA x : HasKey(class_map, x.class_id))
    IN  [i \in 1..Len(kept) |->
            [kept[i] EXCEPT !.class_id = Get(class_map, kept[i].class_id, 0)]]

\* InsertSubstitutions guarded as the lesson insert is: executed whenever
\* subs_data is not empty.
InsertSubstitutionsUnguarded(substitutions, subs_data, class_map) ==
    IF subs_data = << >> THEN Flushed(substitutions)
    ELSE IF ValidSubs(subs_data, class_map) = << >> THEN IntegrityError
    ELSE Flushed(substitutions \o ValidSubs(subs_data, class_map))

\* `if valid_subs:` the insert is executed only with rows to insert.
InsertSubstitutions(substitutions, subs_data, class_map) ==
    IF ValidSubs(subs_data, class_map) = << >> THEN Flushed(substitutions)
    ELSE Flushed(substitutions \o ValidSubs(subs_data, class_map))

\* A DELETE that removes nothing.
DeleteNothing(table) == table

\* delete(Schedule), DELETE FROM substitutions: every row goes.
DeleteRows(table) == << >>

Done(store) == [ok |-> TRUE, store |-> store, at |-> "none"]

\* The exception leaves update_database; at: the call that raised.
Aborted(at) == [ok |-> FALSE, store |-> EmptyStore, at |-> at]

\* update_database as a function of the session's store and the payload:
\* the store the session holds when the function returns, or Aborted when a
\* normalizer or a statement raises.
update_database(store, raw) ==
    LET nc == normalize_classes(raw)
        rc == SyncClasses(store.classes, nc.rows)
        nt == normalize_teachers(raw)
        rt == SyncTeachers(store.teachers, nt.rows)
        ns == normalize_schedule(raw)
        class_map == ClassMap(rc.table, nc.rows)
        rs == InsertSchedule(DeleteRows(store.schedules), ns.rows, class_map)
        nx == normalize_substitutions(raw)
        rx == InsertSubstitutions(DeleteRows(store.substitutions), nx.rows,
                                  class_map)
    IN  IF ~nc.ok THEN Aborted("normalize_classes")
        ELSE IF ~rc.ok THEN Aborted("sync_classes")
        ELSE IF ~nt.ok THEN Aborted("normalize_teachers")
        ELSE IF ~rt.ok THEN Aborted("sync_teachers")
        ELSE IF ~ns.ok THEN Aborted("normalize_schedule")
        ELSE IF ~rs.ok THEN Aborted("insert_schedule")
        ELSE IF ~nx.ok THEN Aborted("normalize_substitutions")
        ELSE IF ~rx.ok THEN Aborted("insert_substitutions")
        ELSE Done([store EXCEPT
                 !.classes = rc.table,
                 !.teachers = rt.table,
                 !.schedules = rs.table,
                 !.substitutions = rx.table])

(***************************************************************************)
(* The payloads the source site serves in this model: what the asset       *)
(* holds is an input of each fetch.                                        *)
(***************************************************************************)
SlotData(s, t, r) == << <<"s", Lst(s)>>, <<"t", Lst(t)>>, <<"r", Lst(r)>> >>

Lesson101 == <<"101", SlotData(<<"036">>, << >>, <<"005">>)>>

Lesson512 == <<"512", << <<"t", Lst(<<"044">>)>>, <<"s", Lst(<<"036">>)>> >> >>

\* {"5": {"20.01.2026": {"1": {"s": "F", "t": ["044"]}}}}
ExchangeCancel5 ==
    Obj(<< <<"5", Obj(<< <<"20.01.2026",
                           << <<"1", << <<"s", Str("F")>>,
                                        <<"t", Lst(<<"044">>)>> >> >> >> >> >>)>> >>)

\* {"7": {"20.01.2026": {"1": {"s": ["036"], "t": ["044"]}}}}
ExchangeMove7 ==
    Obj(<< <<"7", Obj(<< <<"20.01.2026",
                           << <<"1", << <<"s", Lst(<<"036">>)>>,
                                        <<"t", Lst(<<"044">>)>> >> >> >> >> >>)>> >>)

\* The end-to-end example: one class "10A" with one Monday lesson.
PayloadA ==
    RawData(Obj(<< <<"5", "10A">> >>), Obj(<< >>),
            Obj(<< <<"60", << <<"5", Obj(<<Lesson101>>)>> >> >> >>),
            Absent, Obj(<< <<"036", "Math">> >>), Absent, FALSE)

\* PayloadA with a cancellation added: differs in CLASS_EXCHANGE only.
PayloadAx == [PayloadA EXCEPT !.CLASS_EXCHANGE = ExchangeCancel5]

\* Two classes, one teacher, a lesson each, one substitution.
PayloadB ==
    RawData(Obj(<< <<"5", "10A">>, <<"7", "9B">> >>),
            Obj(<< <<"044", "Ivanov">> >>),
            Obj(<< <<"60", << <<"5", Obj(<<Lesson101>>)>>,
                              <<"7", Obj(<<Lesson512>>)>> >> >> >>),
            ExchangeMove7, Obj(<< <<"036", "Math">> >>), Absent, FALSE)

\* PayloadB with the keys of CLASSES and of the period's schedule permuted.
PayloadBp ==
    [PayloadB EXCEPT
        !.CLASSES = Obj(<< <<"7", "9B">>, <<"5", "10A">> >>),
        !.CLASS_SCHEDULE =
            Obj(<< <<"60", << <<"7", Obj(<<Lesson512>>)>>,
                              <<"5", Obj(<<Lesson101>>)>> >> >> >>)]

\* Two classes under one name: the second INSERT violates UNIQUE(name).
PayloadDup ==
    [PayloadA EXCEPT !.CLASSES = Obj(<< <<"5", "10A">>, <<"7", "10A">> >>)]

\* {}: the asset holds an empty object.
NoData == RawData(Absent, Absent, Absent, Absent, Absent, Absent, FALSE)

Payloads == {PayloadA, PayloadAx, PayloadB, PayloadBp, PayloadDup, NoData}

\* The text of the asset as a sequence of tokens: braces, brackets, commas,
\* " " for a run of whitespace and "v" for anything else (a scalar, or a
\* key with its colon and scalar; before the object, the `var nika_data =`).
Tokens == {"{", "}", "[", "]", ",", " ", "v"}

\* str.find and str.rfind for one token: the first and the last position,
\* 0 when there is none.
Find(text, c) ==
    IF \E k \in 1..Len(text) : text[k] = c
    THEN CHOOSE k \in 1..Len(text) :
             text[k] = c /\ \A m \in 1..(k - 1) : text[m] # c
    ELSE 0

RFind(text, c) ==
    IF \E k \in 1..Len(text) : text[k] = c
    THEN CHOOSE k \in 1..Len(text) :
             text[k] = c /\ \A m \in (k + 1)..Len(text) : text[m] # c
    ELSE 0

\* Lines 104-109: the text has a "{" and a "}".
HasObject(js_content) == Find(js_content, "{") # 0 /\ RFind(js_content, "}") # 0

\* Line 111: js_content[start_idx:end_idx], empty when the last "}" comes
\* before the first "{".
JsonStr(js_content) ==
    SubSeq(js_content, Find(js_content, "{"), RFind(js_content, "}"))

\* A list of items between two brackets: nothing, or items with one comma
\* between each two.
IsItemList(text) ==
    \/ text = << >>
    \/ /\ Len(text) % 2 = 1
       /\ \A k \in 1..Len(text) : text[k] = (IF k % 2 = 1 THEN "v" ELSE ",")

\* The innermost object or array of the text, as its two ends.
Innermost(text) ==
    {g \in (1..Len(text)) \X (1..Len(text)) :
        /\ g[1] < g[2]
        /\ <<text[g[1]], text[g[2]]>> \in {<<"{", "}">>, <<"[", "]">>}
        /\ IsItemList(SubSeq(text, g[1] + 1, g[2] - 1))}

\* The decoder's view of a text with its well-formed objects and arrays
\* taken for values, innermost first.
RECURSIVE Reduce(_)
Reduce(text) ==
    IF Innermost(text) = {} THEN text
    ELSE LET g == CHOOSE h \in Innermost(text) : TRUE
         IN  Reduce(SubSeq(text, 1, g[1] - 1) \o <<"v">>
                        \o SubSeq(text, g[2] + 1, Len(text)))

\* json.loads succeeds: whitespace apart, the text is one value.
StrictDecodes(body) ==
    Reduce(SelectSeq(body, LAMBDA c : c # " ")) = <<"v">>

\* The end of the match of `,\s*` followed by the closer at position k: the
\* closer's position, 0 when there is no match at k.
MatchEnd(text, k, closer) ==
    IF text[k] # "," THEN 0
    ELSE LET ends == {e \in (k + 1)..Len(text) :
                         /\ text[e] = closer
                         /\ \A m \in (k + 1)..(e - 1) : text[m] = " "}
         IN  IF ends = {} THEN 0 ELSE CHOOSE e \in ends : TRUE

\* re.sub(r',\s*<closer>', '<closer>', text) from position k on: matches are
\* taken left to right and do not overlap.
RECURSIVE ReSub(_, _, _)
ReSub(text, k, closer) ==
    IF k > Len(text) THEN << >>
    ELSE IF MatchEnd(text, k, closer) # 0
    THEN <<closer>> \o ReSub(text, MatchEnd(text, k, closer) + 1, closer)
    ELSE <<text[k]>> \o ReSub(text, k + 1, closer)

\* The repair pass applied until nothing is left to repair.
RECURSIVE CleanupRepeated(_)
CleanupRepeated(body) ==
    LET once == ReSub(ReSub(body, 1, "}"), 1, "]")
    IN  IF once = body THEN body ELSE CleanupRepeated(once)

\* The repair pass, lines 124-125: commas before a closing brace, then commas
\* before a closing bracket, are removed with the whitespace between.
Cleanup(body) == ReSub(ReSub(body, 1, "}"), 1, "]")

\* Lines 104-128 on the text of the asset: whether it has an object, how
\* often json.loads was called and whether data came out.
Decode(js_content) ==
    IF ~HasObject(js_content) THEN [decodes |-> 0, ok |-> FALSE]
    ELSE IF StrictDecodes(JsonStr(js_content)) THEN [decodes |-> 1, ok |-> TRUE]
    ELSE [decodes |-> 2, ok |-> StrictDecodes(Cleanup(JsonStr(js_content)))]

\* Asset texts: a payload after `var nika_data =`, payloads with commas
\* before a closing brace and bracket, a payload the repair does not mend,
\* and a text without an object.
AssetBodies ==
    {<<"v", "{", "v", "}", "v">>,
     <<"{", "v", ",", " ", "}">>,
     <<"{", "[", "v", ",", "]", "}">>,
     <<"{", "v", ",", ",", "}">>,
     <<"v">>}

\* Decode of each of these texts, computed once.
DecodeOf == [body \in AssetBodies |-> Decode(body)]

(***************************************************************************)
(* State.                                                                  *)
(***************************************************************************)
\* The invocations of run_update_cycle: the interval job, which is given the
\* bot, and a manual run: the admin's forced update (with the bot) or the
\* one-shot verify_system script (bot=None).
Invocations == {"scheduled", "manual"}

BotChoices(p) == IF p = "scheduled" THEN {TRUE} ELSE BOOLEAN

MaxUsers == 2

TelegramIds == 1..MaxUsers

VARIABLES
    db,           \* the committed store: classes, teachers, schedules, ...
    users,        \* the committed users table: telegram_id -> status
    pc,           \* where each invocation is
    local,        \* the local variables of each invocation
    trace,        \* history of the running cycle, for the properties
    last_synced,  \* history: the payload of the last committed synchronization
                  \* and the digest NewHash gives for it
    seen,         \* what a front-end read during the running cycle observed
    probe         \* inputs and results of a function applied on its own

vars == <<db, users, pc, local, trace, last_synced, seen, probe>>

IdleLocal ==
    [bot |-> FALSE, http_open |-> FALSE, raw_data |-> NoData,
     new_hash |-> << >>, old_hash |-> << >>, in_tx |-> FALSE,
     view |-> EmptyStore, class_map |-> << >>,
     recipients |-> << >>, count |-> 0]

NeverSynced == [present |-> FALSE, raw |-> NoData, hash |-> << >>]

\* pre, prev: the store and the last synchronized payload when the cycle
\* started; post: the store as the cycle committed it; fetch: "ok", "empty"
\* or "failed"; enabled: the users with notifications on when the subscribers
\* were read; attempted, failed: the send_message calls made and those that
\* raised.
IdleTrace ==
    [pre |-> EmptyStore, prev |-> NeverSynced, post |-> EmptyStore,
     outcome |-> "none", fetch |-> "pending", page_gets |-> 0, asset_gets |-> 0,
     decodes |-> 0, hash_reads |-> 0, hash_writes |-> 0, normalized |-> 0,
     writes |-> 0, committed |-> FALSE, selected |-> FALSE, enabled |-> {},
     attempted |-> << >>, failed |-> {}]

NoProbe == [stage |-> "none", a |-> NoData, b |-> NoData, ha |-> << >>, hb |-> << >>]

NothingSeen == [valid |-> FALSE, store |-> EmptyStore]

Init ==
    /\ db = EmptyStore
    /\ users = [u \in TelegramIds |-> "absent"]
    /\ pc = [p \in Invocations |-> "idle"]
    /\ local = [p \in Invocations |-> IdleLocal]
    /\ trace = [p \in Invocations |-> IdleTrace]
    /\ last_synced = NeverSynced
    /\ seen = NothingSeen
    /\ probe = NoProbe

(***************************************************************************)
(* Pieces of run_update_cycle the actions share.                           *)
(***************************************************************************)
\* HasData without the emptiness test: the cycle goes on with no data.
HasDataAlways(raw) == TRUE

\* `if not raw_data: return`: None and {} both end the cycle.
HasData(raw) == ~IsEmptyDict(raw)

\* OldHash with the stored value ignored.
OldHashEmpty(meta) == << >>

\* old_hash = meta_obj.value if meta_obj else ""
OldHash(meta) == IF meta.present THEN meta.value ELSE << >>

\* AfterCommit that notifies with or without a bot.
AfterCommitNotifies(bot) == "select_users"

\* `if bot: await notify_subscribers(session, bot)`
AfterCommit(bot) == IF bot THEN "select_users" ELSE "exit"

\* HashMatches that never short-circuits.
HashNeverMatches(new, old) == FALSE

\* HashMatches that takes an absent digest for a match.
HashMatchesOrAbsent(new, old) == new = old \/ old = << >>

\* `if new_hash == old_hash: return`
HashMatches(new, old) == new = old

\* Visible under dirty reads: another connection sees the open session's work.
VisibleDirty(store, sessions) ==
    IF \E p \in DOMAIN sessions : sessions[p].in_tx
    THEN sessions[CHOOSE p \in DOMAIN sessions : sessions[p].in_tx].view
    ELSE store

\* What other connections read while this session works: committed data only.
Visible(store, sessions) == store

\* SessionClose that flushes the session's work to the store instead of
\* rolling it back.
SessionCloseKeeps(store, l) == IF l.in_tx THEN l.view ELSE store

\* Leaving `async with AsyncSessionLocal()`: the session is closed and what it
\* has not committed is rolled back, so the committed store stays as it is.
SessionClose(store, l) == store

\* WriteHash that stores the digest read at the start instead of the new one.
WriteHashStale(l) == [l.view EXCEPT !.meta = [present |-> TRUE, value |-> l.old_hash]]

\* Lines 68-72: the digest record is created or its value replaced.
WriteHash(l) == [l.view EXCEPT !.meta = [present |-> TRUE, value |-> l.new_hash]]

\* OnError with a failed commit swallowed: the notification still follows.
OnErrorNotify(at) == IF at = "commit" THEN "select_users" ELSE "finally"

\* OnError that lets the exception leave run_update_cycle.
OnErrorPropagates(at) == "raised"

\* Where control goes when the step at `at` raises: `except Exception` logs
\* and `finally` follows, whatever the step.
OnError(at) == "finally"

\* Subscribers without the notification_enabled filter.
SubscribersAll(table) ==
    SelectSeq([i \in 1..MaxUsers |-> i], LAMBDA u : table[u] # "absent")

\* select(User).where(User.notification_enabled == True), by telegram_id.
Subscribers(table) ==
    SelectSeq([i \in 1..MaxUsers |-> i], LAMBDA u : table[u] = "on")

\* AfterSend with the exception escaping the loop: a failure ends the fan-out.
AfterSendStops(queue, delivered) == IF delivered THEN Tail(queue) ELSE << >>

\* The recipients left after one send: a failed send is caught, the loop goes on.
AfterSend(queue, delivered) == Tail(queue)

\* count += 1 runs only when send_message returned.
CountAfter(count, delivered) == IF delivered THEN count + 1 ELSE count

\* close_session that leaves the handle as it is.
close_session_skipped(open) == open

\* NikaParser.close_session: a session that is open is closed.
close_session(open) == FALSE

Running(p) == pc[p] # "idle"

\* The cycle leaves the try block: by `return`, by falling off its end, or
\* through `except`; the database session is closed on the way.
Leave(p, to, outcome, tr) ==
    /\ pc' = [pc EXCEPT ![p] = to]
    /\ db' = SessionClose(db, local[p])
    /\ local' = [local EXCEPT ![p].in_tx = FALSE, ![p].view = EmptyStore]
    /\ trace' = [trace EXCEPT ![p] = [tr EXCEPT !.outcome = outcome]]

Raise(p, tr) == Leave(p, OnError(pc[p]), "failed", tr)

(***************************************************************************)
(* Actions.                                                                *)
(***************************************************************************)
\* run_update_cycle is entered, with or without a bot: parser = NikaParser().
Start(p, b) ==
    /\ pc[p] = "idle"
    /\ pc' = [pc EXCEPT ![p] = "fetch_page"]
    /\ local' = [local EXCEPT ![p] = [IdleLocal EXCEPT !.bot = b]]
    /\ trace' = [trace EXCEPT ![p] = [IdleTrace EXCEPT !.pre = db,
                                                        !.prev = last_synced,
                                                        !.outcome = "running"]]
    /\ seen' = NothingSeen
    /\ UNCHANGED <<db, users, last_synced, probe>>

\* What follows fetch_schedule_data: `if not raw_data: return`, else the
\* digest is computed and the database session opened.
AfterFetch(p, data, tr) ==
    IF HasData(data)
    THEN /\ pc' = [pc EXCEPT ![p] = "read_hash"]
         /\ local' = [local EXCEPT ![p].http_open = TRUE, ![p].raw_data = data,
                                   ![p].new_hash = NewHash(data)]
         /\ trace' = [trace EXCEPT ![p] = tr]
         /\ db' = db
    ELSE /\ pc' = [pc EXCEPT ![p] = "finally"]
         /\ local' = [local EXCEPT ![p].http_open = TRUE]
         /\ trace' = [trace EXCEPT ![p] = [tr EXCEPT !.outcome = "no_data"]]
         /\ db' = db

\* fetch_schedule_data, first request: GET the page and look for the asset.
FetchPage(p) ==
    /\ pc[p] = "fetch_page"
    /\ \E r \in {"ok", "error", "status", "no_ref"} :
         LET tr == [trace[p] EXCEPT !.page_gets = @ + 1]
             failed == [tr EXCEPT !.fetch = "failed"]
         IN  IF r = "ok"
             THEN /\ pc' = [pc EXCEPT ![p] = "fetch_asset"]
                  /\ local' = [local EXCEPT ![p].http_open = TRUE]
                  /\ trace' = [trace EXCEPT ![p] = tr]
                  /\ db' = db
             ELSE AfterFetch(p, NoData, failed)
    /\ UNCHANGED <<users, last_synced, seen, probe>>

\* fetch_schedule_data, second request: GET the asset, cut out the object,
\* decode it strictly and, if that fails, once more after the repair pass.
FetchAsset(p) ==
    /\ pc[p] = "fetch_asset"
    /\ \E response \in {"error", "status", "ok"}, r \in AssetBodies,
          payload \in Payloads :
         LET got == response = "ok"
             tr == [trace[p] EXCEPT
                       !.asset_gets = @ + 1,
                       !.decodes = IF got THEN DecodeOf[r].decodes ELSE 0]
         IN  IF got /\ DecodeOf[r].ok
             THEN AfterFetch(p, payload,
                      [tr EXCEPT !.fetch = IF IsEmptyDict(payload) THEN "empty"
                                           ELSE "ok"])
             ELSE AfterFetch(p, NoData, [tr EXCEPT !.fetch = "failed"])
    /\ UNCHANGED <<users, last_synced, seen, probe>>

\* Lines 50-60: the stored digest is read and compared.
ReadHash(p) ==
    /\ pc[p] = "read_hash"
    /\ LET old == OldHash(db.meta)
           tr == [trace[p] EXCEPT !.hash_reads = @ + 1]
       IN  IF HashMatches(local[p].new_hash, old)
           THEN Leave(p, "finally", "unchanged", tr)
           ELSE /\ pc' = [pc EXCEPT ![p] = "sync_classes"]
                /\ local' = [local EXCEPT ![p].old_hash = old, ![p].in_tx = TRUE,
                                          ![p].view = db]
                /\ trace' = [trace EXCEPT ![p] = tr]
                /\ db' = db
    /\ UNCHANGED <<users, last_synced, seen, probe>>

\* update_database lines 90-121: classes are upserted and flushed.
SyncClassesStep(p) ==
    /\ pc[p] = "sync_classes"
    /\ LET n == normalize_classes(local[p].raw_data)
           r == SyncClasses(local[p].view.classes, n.rows)
           tr == [trace[p] EXCEPT !.normalized = @ + 1]
       IN  IF ~n.ok THEN Raise(p, tr)
           ELSE IF ~r.ok THEN Raise(p, [tr EXCEPT !.writes = @ + 1])
           ELSE /\ pc' = [pc EXCEPT ![p] = "sync_teachers"]
                /\ local' = [local EXCEPT ![p].view.classes = r.table,
                                          ![p].class_map = ClassMap(r.table, n.rows)]
                /\ trace' = [trace EXCEPT ![p] =
                       [tr EXCEPT !.writes =
                           IF r.table = local[p].view.classes THEN @ ELSE @ + 1]]
                /\ db' = db
    /\ UNCHANGED <<users, last_synced, seen, probe>>

\* update_database lines 126-147: new teachers are inserted and flushed.
SyncTeachersStep(p) ==
    /\ pc[p] = "sync_teachers"
    /\ LET n == normalize_teachers(local[p].raw_data)
           r == SyncTeachers(local[p].view.teachers, n.rows)
           tr == [trace[p] EXCEPT !.normalized = @ + 1]
       IN  IF ~n.ok THEN Raise(p, tr)
           ELSE IF ~r.ok THEN Raise(p, [tr EXCEPT !.writes = @ + 1])
           ELSE /\ pc' = [pc EXCEPT ![p] = "delete_schedule"]
                /\ local' = [local EXCEPT ![p].view.teachers = r.table]
                /\ trace' = [trace EXCEPT ![p] =
                       [tr EXCEPT !.writes =
                           IF r.table = local[p].view.teachers THEN @ ELSE @ + 1]]
                /\ db' = db
    /\ UNCHANGED <<users, last_synced, seen, probe>>

\* Line 152: delete(Schedule).
DeleteSchedule(p) ==
    /\ pc[p] = "delete_schedule"
    /\ pc' = [pc EXCEPT ![p] = "insert_schedule"]
    /\ local' = [local EXCEPT ![p].view.schedules = DeleteRows(@)]
    /\ trace' = [trace EXCEPT ![p].writes = @ + 1]
    /\ UNCHANGED <<db, users, last_synced, seen, probe>>

\* Lines 154-175: the lessons are normalized and the mapped ones inserted.
InsertScheduleStep(p) ==
    /\ pc[p] = "insert_schedule"
    /\ LET n == normalize_schedule(local[p].raw_data)
           r == InsertSchedule(local[p].view.schedules, n.rows, local[p].class_map)
           tr == [trace[p] EXCEPT !.normalized = @ + 1]
       IN  IF ~n.ok THEN Raise(p, tr)
           ELSE IF ~r.ok THEN Raise(p, [tr EXCEPT !.writes = @ + 1])
           ELSE /\ pc' = [pc EXCEPT ![p] = "delete_subs"]
                /\ local' = [local EXCEPT ![p].view.schedules = r.table]
                /\ trace' = [trace EXCEPT ![p] =
                       [tr EXCEPT !.writes = IF n.rows = << >> THEN @ ELSE @ + 1]]
                /\ db' = db
    /\ UNCHANGED <<users, last_synced, seen, probe>>

\* Lines 179-185: the substitutions are normalized, the old rows deleted.
DeleteSubstitutions(p) ==
    /\ pc[p] = "delete_subs"
    /\ LET n == normalize_substitutions(local[p].raw_data)
           tr == [trace[p] EXCEPT !.normalized = @ + 1]
       IN  IF ~n.ok THEN Raise(p, tr)
           ELSE /\ pc' = [pc EXCEPT ![p] = "insert_subs"]
                /\ local' = [local EXCEPT ![p].view.substitutions = DeleteRows(@)]
                /\ trace' = [trace EXCEPT ![p] = [tr EXCEPT !.writes = @ + 1]]
                /\ db' = db
    /\ UNCHANGED <<users, last_synced, seen, probe>>

\* Lines 187-199: the mapped substitutions are inserted, if there are any.
InsertSubstitutionsStep(p) ==
    /\ pc[p] = "insert_subs"
    /\ LET subs_data == normalize_substitutions(local[p].raw_data).rows
           valid_subs == ValidSubs(subs_data, local[p].class_map)
           r == InsertSubstitutions(local[p].view.substitutions, subs_data,
                                    local[p].class_map)
       IN  IF ~r.ok THEN Raise(p, [trace[p] EXCEPT !.writes = @ + 1])
           ELSE /\ pc' = [pc EXCEPT ![p] = "commit"]
                /\ local' = [local EXCEPT ![p].view.substitutions = r.table]
                /\ trace' = [trace EXCEPT ![p].writes =
                                IF valid_subs = << >> THEN @ ELSE @ + 1]
                /\ db' = db
    /\ UNCHANGED <<users, last_synced, seen, probe>>

\* Lines 68-79: the digest is written and the session committed; with a bot
\* the notification follows, without one the cycle is over.
Commit(p) ==
    /\ pc[p] = "commit"
    /\ db' = WriteHash(local[p])
    /\ local' = [local EXCEPT ![p].view = WriteHash(local[p])]
    /\ trace' = [trace EXCEPT ![p].hash_writes = @ + 1, ![p].writes = @ + 1,
                              ![p].committed = TRUE,
                              ![p].post = WriteHash(local[p]),
                              ![p].outcome = "synced"]
    /\ last_synced' = [present |-> TRUE, raw |-> local[p].raw_data,
                        hash |-> local[p].new_hash]
    /\ pc' = [pc EXCEPT ![p] = AfterCommit(local[p].bot)]
    /\ UNCHANGED <<users, seen, probe>>

\* A statement of the session raises (the store refuses it): any read, flush,
\* delete, insert or the commit itself.
StoreFault(p) ==
    /\ pc[p] \in {"read_hash", "sync_classes", "sync_teachers", "delete_schedule",
                  "insert_schedule", "delete_subs", "insert_subs", "commit",
                  "select_users"}
    /\ Raise(p, trace[p])
    /\ UNCHANGED <<users, last_synced, seen, probe>>

\* notify_subscribers lines 207-211: the subscribers are read.
SelectUsers(p) ==
    /\ pc[p] = "select_users"
    /\ local' = [local EXCEPT ![p].recipients = Subscribers(users), ![p].count = 0]
    /\ trace' = [trace EXCEPT ![p].selected = TRUE,
                              ![p].enabled = {u \in TelegramIds : users[u] = "on"}]
    /\ pc' = [pc EXCEPT ![p] = IF Subscribers(users) = << >> THEN "exit" ELSE "send"]
    /\ UNCHANGED <<db, users, last_synced, seen, probe>>

\* notify_subscribers lines 212-218: one send_message, delivered or not.
Send(p) ==
    /\ pc[p] = "send"
    /\ \E delivered \in BOOLEAN :
         LET u == Head(local[p].recipients)
             left == AfterSend(local[p].recipients, delivered)
         IN  /\ local' = [local EXCEPT ![p].recipients = left,
                                       ![p].count = CountAfter(@, delivered)]
             /\ trace' = [trace EXCEPT
                    ![p].attempted = Append(@, u),
                    ![p].failed = IF delivered THEN @ ELSE @ \cup {u}]
             /\ pc' = [pc EXCEPT ![p] = IF left = << >> THEN "exit" ELSE "send"]
    /\ UNCHANGED <<db, users, last_synced, seen, probe>>

\* The end of the try block is reached: the database session is closed.
Exit(p) ==
    /\ pc[p] = "exit"
    /\ Leave(p, "finally", trace[p].outcome, trace[p])
    /\ UNCHANGED <<users, last_synced, seen, probe>>

\* finally: parser.close_session(); run_update_cycle returns.
CloseSession(p) ==
    /\ pc[p] = "finally"
    /\ pc' = [pc EXCEPT ![p] = "idle"]
    /\ local' = [local EXCEPT ![p] =
                    [IdleLocal EXCEPT !.http_open = close_session(local[p].http_open)]]
    /\ trace' = [trace EXCEPT ![p] = IdleTrace]
    /\ seen' = NothingSeen
    /\ UNCHANGED <<db, users, last_synced, probe>>

\* A front-end handler reads the store (render_schedule).
Read ==
    /\ \E p \in Invocations : Running(p)
    /\ seen' = [valid |-> TRUE, store |-> Visible(db, local)]
    /\ UNCHANGED <<db, users, pc, local, trace, last_synced, probe>>

\* /start: a user row is created, notifications off by default.
Register(u) ==
    /\ users[u] = "absent"
    /\ users' = [users EXCEPT ![u] = "off"]
    /\ UNCHANGED <<db, pc, local, trace, last_synced, seen, probe>>

\* toggle_sub: the user flips notification_enabled.
ToggleSubscription(u) ==
    /\ users[u] # "absent"
    /\ users' = [users EXCEPT ![u] = IF @ = "on" THEN "off" ELSE "on"]
    /\ UNCHANGED <<db, pc, local, trace, last_synced, seen, probe>>

CycleStep(p) ==
    \/ FetchPage(p) \/ FetchAsset(p) \/ ReadHash(p)
    \/ SyncClassesStep(p) \/ SyncTeachersStep(p)
    \/ DeleteSchedule(p) \/ InsertScheduleStep(p)
    \/ DeleteSubstitutions(p) \/ InsertSubstitutionsStep(p)
    \/ Commit(p) \/ StoreFault(p)
    \/ SelectUsers(p) \/ Send(p) \/ Exit(p) \/ CloseSession(p)

\* Invocations that do not overlap: a cycle starts when none is running. A
\* forced update with the bot is then the interval job's run under another
\* name, so here the manual invocation is the run without a bot.
Next ==
    \/ \E p \in Invocations : \E b \in BotChoices(p) :
          /\ \A q \in Invocations : ~Running(q)
          /\ p = "manual" => ~b
          /\ Start(p, b)
    \/ \E p \in Invocations : CycleStep(p)
    \/ Read
    \/ \E u \in TelegramIds : Register(u)
    \/ \E u \in TelegramIds : ToggleSubscription(u)

Spec == Init /\ [][Next]_vars

(***************************************************************************)
(* Properties of the cycle, under Spec.                                    *)
(***************************************************************************)
Elems(seq) == {seq[i] : i \in 1..Len(seq)}

\* C1: when a cycle fails (a step raises) without having committed, the
\* persisted classes, teachers, lessons, substitutions and digest are
\* exactly what they were when the cycle started.
C1_FailedCycleLeavesStore ==
    \A p \in Invocations :
        (trace[p].outcome = "failed" /\ ~trace[p].committed) => db = trace[p].pre

\* A cycle failed after it had upserted, deleted and inserted rows over a
\* store that already held lessons.
C1_Witness ==
    \E p \in Invocations :
        /\ pc[p] = "finally" /\ trace[p].outcome = "failed"
        /\ trace[p].writes >= 3 /\ trace[p].normalized = 4
        /\ db.schedules # << >>

C3_UnchangedDigestShortCircuits ==
    \A p \in Invocations :
        (trace[p].hash_reads = 1
            /\ local[p].new_hash = OldHash(trace[p].pre.meta)) =>
            /\ pc[p] = "finally"
            /\ trace[p].normalized = 0 /\ trace[p].writes = 0
            /\ trace[p].hash_writes = 0 /\ trace[p].attempted = << >>
            /\ ~trace[p].selected /\ db = trace[p].pre

C3_Witness ==
    \E p \in Invocations :
        /\ pc[p] = "finally" /\ trace[p].outcome = "unchanged"
        /\ local[p].bot /\ db.meta.present

\* C4: a cycle reads the stored digest once, before it decides, and writes it
\* at most once, in the commit of a complete synchronization; the stored
\* digest is absent or the digest of the payload last synchronized.
C4_DigestFollowsCommit ==
    /\ \A p \in Invocations :
          /\ trace[p].hash_reads <= 1 /\ trace[p].hash_writes <= 1
          /\ pc[p] \in {"sync_classes", "sync_teachers", "delete_schedule",
                        "insert_schedule", "delete_subs", "insert_subs",
                        "commit"} => trace[p].hash_reads = 1
          /\ trace[p].hash_writes = 1 =>
                trace[p].committed /\ trace[p].hash_reads = 1
                    /\ trace[p].normalized = 4
          /\ Running(p) /\ ~trace[p].committed => db.meta = trace[p].pre.meta
    /\ db.meta.present =>
          last_synced.present /\ db.meta.value = last_synced.hash

\* A cycle replaced an earlier digest.
C4_Witness ==
    \E p \in Invocations :
        /\ trace[p].hash_writes = 1 /\ trace[p].pre.meta.present
        /\ db.meta # trace[p].pre.meta

\* C5: after a failed fetch the cycle is over: no further request or decode,
\* no read or write of the store, no notification.
C5_FetchFailureEndsCycle ==
    \A p \in Invocations :
        trace[p].fetch = "failed" =>
            /\ pc[p] = "finally"
            /\ trace[p].page_gets = 1 /\ trace[p].asset_gets <= 1
            /\ trace[p].decodes <= 2
            /\ trace[p].hash_reads = 0 /\ trace[p].writes = 0
            /\ trace[p].normalized = 0 /\ trace[p].attempted = << >>
            /\ db = trace[p].pre

\* The JSON stayed invalid after the repair pass, over a filled store.
C5_Witness ==
    \E p \in Invocations :
        /\ trace[p].fetch = "failed" /\ trace[p].decodes = 2
        /\ local[p].bot /\ db.schedules # << >>

\* C6: a message is sent only in a cycle that found the digest changed and
\* has committed its synchronization and digest; never in a failed cycle.
C6_NotifyOnlyAfterCommit ==
    \A p \in Invocations :
        (trace[p].attempted # << >> \/ pc[p] = "send") =>
            /\ trace[p].committed /\ trace[p].outcome = "synced"
            /\ local[p].new_hash # OldHash(trace[p].pre.meta)
            /\ db.meta = [present |-> TRUE, value |-> local[p].new_hash]
            /\ db = trace[p].post

C6_Witness ==
    \E p \in Invocations :
        trace[p].attempted # << >> /\ trace[p].pre.meta.present

\* C7: when the broadcast is over every subscriber read at its start has had
\* its attempt, failed ones included, the count is the number of sends that
\* did not fail, and the cycle and its commit stand.
C7_FailedDeliveryDoesNotStopFanOut ==
    \A p \in Invocations :
        (trace[p].selected /\ pc[p] \in {"exit", "finally"}
            /\ trace[p].outcome = "synced") =>
            /\ Elems(trace[p].attempted) = trace[p].enabled
            /\ local[p].count = Cardinality(trace[p].enabled \ trace[p].failed)
            /\ trace[p].committed /\ db = trace[p].post

\* The first delivery failed and a later one went through.
C7_Witness ==
    \E p \in Invocations :
        /\ pc[p] = "finally" /\ Len(trace[p].attempted) >= 2
        /\ trace[p].attempted[1] \in trace[p].failed
        /\ local[p].count >= 1

\* C8: in one cycle no user gets two attempts, no user with notifications
\* off at the broadcast gets one, and a cycle whose digest equals the stored
\* one makes no attempt (a failed delivery is not repeated).
C8_AtMostOnceDelivery ==
    \A p \in Invocations :
        /\ \A i, j \in 1..Len(trace[p].attempted) :
              trace[p].attempted[i] = trace[p].attempted[j] => i = j
        /\ Elems(trace[p].attempted) \subseteq trace[p].enabled
        /\ trace[p].attempted # << >> =>
              local[p].new_hash # OldHash(trace[p].pre.meta)

\* A delivery failed, the broadcast ended, and a registered user with
\* notifications off was passed over.
C8_Witness ==
    \E p \in Invocations : \E u \in TelegramIds :
        /\ pc[p] = "finally" /\ trace[p].failed # {}
        /\ users[u] = "off" /\ u \notin trace[p].enabled

OnlyExchangeDiffers(a, b) ==
    /\ a.CLASS_EXCHANGE # b.CLASS_EXCHANGE
    /\ [a EXCEPT !.CLASS_EXCHANGE = Absent] = [b EXCEPT !.CLASS_EXCHANGE = Absent]

\* C9: a cycle whose payload differs from the last synchronized payload in
\* CLASS_EXCHANGE only computes the stored digest, ends unchanged, leaves the
\* substitutions as they were and sends nothing.
C9_SubstitutionOnlyChangeIgnored ==
    \A p \in Invocations :
        (trace[p].hash_reads = 1 /\ trace[p].prev.present
            /\ OnlyExchangeDiffers(local[p].raw_data, trace[p].prev.raw)) =>
            /\ local[p].new_hash = trace[p].pre.meta.value
            /\ pc[p] = "finally" /\ trace[p].outcome = "unchanged"
            /\ trace[p].normalized = 0 /\ trace[p].attempted = << >>
            /\ db.substitutions = trace[p].pre.substitutions /\ db = trace[p].pre

\* The payload carries a cancellation the store does not hold.
C9_Witness ==
    \E p \in Invocations :
        /\ trace[p].outcome = "unchanged" /\ trace[p].prev.present
        /\ OnlyExchangeDiffers(local[p].raw_data, trace[p].prev.raw)
        /\ normalize_substitutions(local[p].raw_data).rows # << >>
        /\ db.substitutions = << >>

\* C12: a cycle that fetches the very payload the last committed cycle
\* synchronized ends unchanged: no entity and no digest written, nothing
\* sent.
C12_IdenticalPayloadChangesNothing ==
    \A p \in Invocations :
        (trace[p].hash_reads = 1 /\ trace[p].prev.present
            /\ local[p].raw_data = trace[p].prev.raw) =>
            /\ pc[p] = "finally" /\ trace[p].outcome = "unchanged"
            /\ trace[p].writes = 0 /\ trace[p].hash_writes = 0
            /\ ~trace[p].selected /\ trace[p].attempted = << >>
            /\ db = trace[p].pre

\* The repeated payload has two classes, a teacher and a substitution, and
\* the cycle was given the bot.
C12_Witness ==
    \E p \in Invocations :
        /\ pc[p] = "finally" /\ trace[p].prev.present
        /\ local[p].raw_data = trace[p].prev.raw /\ local[p].bot
        /\ db.substitutions # << >> /\ db.teachers # << >>

\* C24: a cycle ends only through its finally block, whatever its outcome
\* (no data fetched, digest unchanged, a failed step, committed, notified),
\* and when it has ended the network session it opened is closed.
C24_SessionReleasedOnEveryExit ==
    [][\A p \in Invocations :
          (pc[p] # "idle" /\ pc'[p] = "idle") =>
              /\ pc[p] = "finally"
              /\ trace[p].outcome \in {"no_data", "unchanged", "failed", "synced"}
              /\ local[p].http_open
              /\ ~local'[p].http_open]_vars

\* A cycle has committed and ended, and no invocation holds an open session.
C24_Witness ==
    /\ db.meta.present
    /\ \A p \in Invocations : pc[p] = "idle" /\ ~local[p].http_open

(***************************************************************************)
(* The digest on its own: NewHash applied to pairs of payloads.            *)
(***************************************************************************)
\* {"101": {"r": ["005"], "t": [], "s": ["036"]}}: Lesson101, keys reordered.
Lesson101p ==
    <<"101", << <<"r", Lst(<<"005">>)>>, <<"t", Lst(<< >>)>>,
                <<"s", Lst(<<"036">>)>> >> >>

ClassesChoices ==
    {Absent, Null, Obj(<< <<"5", "10A">> >>),
     Obj(<< <<"5", "10A">>, <<"7", "9B">> >>),
     Obj(<< <<"7", "9B">>, <<"5", "10A">> >>)}

ScheduleChoices ==
    {Absent,
     Obj(<< <<"60", << <<"5", Obj(<<Lesson101>>)>> >> >> >>),
     Obj(<< <<"60", << <<"5", Obj(<<Lesson101p>>)>> >> >> >>),
     Obj(<< <<"60", << <<"5", Obj(<<Lesson101>>)>>,
                       <<"7", Obj(<<Lesson512>>)>> >> >> >>),
     Obj(<< <<"60", << <<"7", Obj(<<Lesson512>>)>>,
                       <<"5", Obj(<<Lesson101>>)>> >> >> >>)}

TeachersChoices == {Absent, Obj(<< >>), Obj(<< <<"044", "Ivanov">> >>)}

ExchangeChoices == {Absent, ExchangeCancel5}

DigestInputs ==
    {RawData(c, t, s, x, Obj(<< <<"036", "Math">> >>), Absent, FALSE) :
        c \in ClassesChoices, t \in TeachersChoices,
        s \in ScheduleChoices, x \in ExchangeChoices}

InitDigest ==
    /\ db = EmptyStore
    /\ users = [u \in TelegramIds |-> "absent"]
    /\ pc = [p \in Invocations |-> "idle"]
    /\ local = [p \in Invocations |-> IdleLocal]
    /\ trace = [p \in Invocations |-> IdleTrace]
    /\ last_synced = NeverSynced
    /\ seen = NothingSeen
    /\ probe \in {[NoProbe EXCEPT !.stage = "in", !.a = x, !.b = y] :
                     x \in DigestInputs, y \in DigestInputs}

\* Lines 42-48 applied to both payloads.
ApplyDigest ==
    /\ probe.stage = "in"
    /\ probe' = [probe EXCEPT !.stage = "out", !.ha = NewHash(probe.a),
                              !.hb = NewHash(probe.b)]
    /\ UNCHANGED <<db, users, pc, local, trace, last_synced, seen>>

SpecDigest == InitDigest /\ [][ApplyDigest]_vars

\* A JSON object as the set of its items, the values seen through View: what
\* is left of it when the order of the keys is forgotten.
AsSet(m, View(_)) == {<<m[i][1], View(m[i][2])>> : i \in 1..Len(m)}

StrMapContent(sec) ==
    [kind |-> sec.kind, items |-> AsSet(sec.items, LAMBDA v : v)]

ScheduleContent(sec) ==
    [kind |-> sec.kind,
     items |-> AsSet(sec.items, LAMBDA full :
                  AsSet(full, LAMBDA cs :
                      [kind |-> cs.kind,
                       items |-> AsSet(cs.items, LAMBDA sd :
                                    AsSet(sd, LAMBDA ids : ids))]))]

\* The three digested sections of a payload, key order forgotten.
Digested(raw) ==
    [classes |-> StrMapContent(raw.CLASSES),
     schedule |-> ScheduleContent(raw.CLASS_SCHEDULE),
     teachers |-> StrMapContent(raw.TEACHERS)]

\* The same, with an absent section and a JSON null section taken as one
\* value (raw_data.get gives None for both).
NullIsAbsent(content) ==
    [content EXCEPT !.kind = IF @ = "null" THEN "absent" ELSE @]

DigestedValues(raw) ==
    [classes |-> NullIsAbsent(StrMapContent(raw.CLASSES)),
     schedule |-> NullIsAbsent(ScheduleContent(raw.CLASS_SCHEDULE)),
     teachers |-> NullIsAbsent(StrMapContent(raw.TEACHERS))]

\* C10 as stated: payloads that are key-order permutations of each other
\* have one digest, and two digests differ exactly when the payloads differ
\* in the classes, lesson-schedule or teachers section.
C10_DigestIffSectionsDiffer ==
    probe.stage = "out" =>
        (probe.ha # probe.hb <=> Digested(probe.a) # Digested(probe.b))

\* C10, amended: ... exactly when the payloads differ in the value of one of
\* the three sections, an absent section and a null section being the same
\* value.
C10_DigestIffSectionValuesDiffer ==
    probe.stage = "out" =>
        (probe.ha # probe.hb <=> DigestedValues(probe.a) # DigestedValues(probe.b))

\* Two payloads whose texts differ in key order and in the substitutions
\* got one digest.
C10_Witness ==
    /\ probe.stage = "out" /\ probe.ha = probe.hb
    /\ probe.a.CLASSES # probe.b.CLASSES
    /\ probe.a.CLASS_SCHEDULE # probe.b.CLASS_SCHEDULE
    /\ probe.a.CLASS_EXCHANGE # probe.b.CLASS_EXCHANGE
    /\ probe.a.CLASSES.kind = "map" /\ probe.b.CLASSES.kind = "map"

(***************************************************************************)
(* The synchronization on its own: update_database and the commit applied  *)
(* to one payload after another, without the digest comparison.            *)
(***************************************************************************)
\* {"5": {...}, "7": {...}}: substitutions for both classes.
ExchangeBoth ==
    Obj(ExchangeCancel5.items \o ExchangeMove7.items)

\* Class 5 renamed, with another grade.
PayloadRename == [PayloadA EXCEPT !.CLASSES = Obj(<< <<"5", "9B">> >>)]

\* Teacher 044 under another name.
PayloadTeacher == [PayloadB EXCEPT !.TEACHERS = Obj(<< <<"044", "Petrov">> >>)]

\* A second teacher, and 044 missing.
PayloadTeacher2 == [PayloadA EXCEPT !.TEACHERS = Obj(<< <<"045", "Petrov">> >>)]

\* Every lesson belongs to class 7, which CLASSES does not list.
PayloadUnmapped ==
    [PayloadA EXCEPT
        !.CLASS_SCHEDULE = Obj(<< <<"60", << <<"7", Obj(<<Lesson512>>)>> >> >> >>)]

\* Lessons and substitutions for classes 5 and 7, CLASSES lists 5 only.
PayloadPartly ==
    [PayloadA EXCEPT
        !.CLASS_SCHEDULE = PayloadB.CLASS_SCHEDULE,
        !.CLASS_EXCHANGE = ExchangeBoth]

\* Every substitution belongs to class 7, which CLASSES does not list.
PayloadSubsUnmapped == [PayloadA EXCEPT !.CLASS_EXCHANGE = ExchangeMove7]

\* Class 7 alone, no lessons, no substitutions.
PayloadBare ==
    RawData(Obj(<< <<"7", "9B">> >>), Absent, Absent, Absent, Absent, Absent, FALSE)

SyncPayloads ==
    {PayloadA, PayloadAx, PayloadB, PayloadDup, PayloadRename, PayloadTeacher,
     PayloadTeacher2, PayloadUnmapped, PayloadPartly, PayloadSubsUnmapped,
     PayloadBare}

\* new_hash of each payload, computed once.
SyncHash == [raw \in SyncPayloads |-> NewHash(raw)]

\* Nothing applied yet.  raw, pre, ok, at: the payload last applied, the
\* store it was applied to, whether it was committed and, if not, the call
\* that raised; prev_raw, prev_ok: the same for the application before it.
NoSync == [stage |-> "sync", raw |-> NoData, pre |-> EmptyStore, ok |-> FALSE,
           at |-> "none", prev_raw |-> NoData, prev_ok |-> FALSE]

InitSync ==
    /\ db = EmptyStore
    /\ users = [u \in TelegramIds |-> "absent"]
    /\ pc = [p \in Invocations |-> "idle"]
    /\ local = [p \in Invocations |-> IdleLocal]
    /\ trace = [p \in Invocations |-> IdleTrace]
    /\ last_synced = NeverSynced
    /\ seen = NothingSeen
    /\ probe = NoSync

\* Lines 62-73 and 81-82 for one payload: update_database, the digest
\* write and the commit, or the rollback when something raised.
Synchronize(raw) ==
    LET r == update_database(db, raw)
    IN  /\ db' = IF r.ok
                 THEN WriteHash([IdleLocal EXCEPT !.view = r.store,
                                                  !.new_hash = SyncHash[raw]])
                 ELSE db
        /\ probe' = [stage |-> "sync", raw |-> raw, pre |-> db, ok |-> r.ok,
                     at |-> r.at, prev_raw |-> probe.raw, prev_ok |-> probe.ok]
        /\ UNCHANGED <<users, pc, local, trace, last_synced, seen>>

NextSync == \E raw \in SyncPayloads : Synchronize(raw)

SpecSync == InitSync /\ [][NextSync]_vars

(***************************************************************************)
(* Properties of the synchronization, under SpecSync.                      *)
(***************************************************************************)
Counts(store) ==
    <<Len(store.classes), Len(store.teachers), Len(store.schedules),
      Len(store.substitutions)>>

\* C11: a snapshot applied again right after it was applied and committed
\* is applied without error and leaves the numbers of classes, teachers,
\* lessons and substitutions as the first application left them.
C11_SecondApplyKeepsCounts ==
    (probe.stage = "sync" /\ probe.prev_ok /\ probe.prev_raw = probe.raw) =>
        probe.ok /\ Counts(db) = Counts(probe.pre)

\* A payload with classes, a teacher, lessons and a substitution was
\* applied twice in a row.
C11_Witness ==
    /\ probe.stage = "sync" /\ probe.prev_ok /\ probe.prev_raw = probe.raw
    /\ probe.ok /\ Len(db.classes) >= 2 /\ db.teachers # << >>
    /\ db.schedules # << >> /\ db.substitutions # << >>

\* The external_id of the class a row's class_id points to, PyNone when it
\* points to no class.
ExternalIdOf(classes, id) ==
    LET found == {classes[i].external_id :
                     i \in {j \in 1..Len(classes) : classes[j].id = id}}
    IN  IF found = {} THEN PyNone ELSE CHOOSE e \in found : TRUE

\* The external ids CLASSES of the payload lists.
ListedClasses(raw) ==
    IF raw.CLASSES.kind = "map" THEN Keys(raw.CLASSES.items) ELSE {}

\* C13: after a committed synchronization the lesson rows are the
\* normalized lessons of the payload whose class the payload lists, each
\* once and pointing to that class, and the substitution rows are the
\* normalized substitutions whose class the payload lists; nothing else is
\* left in the two tables.
C13_FullReplace ==
    (probe.stage = "sync" /\ probe.ok) =>
        LET listed == ListedClasses(probe.raw)
            lessons == SelectSeq(normalize_schedule(probe.raw).rows,
                                 LAMBDA l : l.class_id \in listed)
            subs == SelectSeq(normalize_substitutions(probe.raw).rows,
                              LAMBDA x : x.class_id \in listed)
        IN  /\ Len(db.schedules) = Len(lessons)
            /\ \A i \in 1..Len(lessons) :
                  /\ ExternalIdOf(db.classes, db.schedules[i].class_id)
                        = lessons[i].class_id
                  /\ db.schedules[i].day_of_week = lessons[i].day
                  /\ db.schedules[i].lesson_number = lessons[i].number
                  /\ db.schedules[i].subject_name = lessons[i].subject
                  /\ db.schedules[i].teacher_name = lessons[i].teacher
                  /\ db.schedules[i].room_number = lessons[i].room
            /\ Len(db.substitutions) = Len(subs)
            /\ \A i \in 1..Len(subs) :
                  /\ ExternalIdOf(db.classes, db.substitutions[i].class_id)
                        = subs[i].class_id
                  /\ [db.substitutions[i] EXCEPT !.class_id = 0]
                        = [subs[i] EXCEPT !.class_id = 0]

\* The store held lessons and substitutions of an earlier payload, and the
\* new payload has a lesson and a substitution for a class it does not list.
C13_Witness ==
    /\ probe.stage = "sync" /\ probe.ok
    /\ probe.pre.schedules # << >> /\ probe.pre.substitutions # << >>
    /\ db.schedules # << >> /\ db.substitutions # << >>
    /\ db.schedules # probe.pre.schedules
    /\ Len(normalize_schedule(probe.raw).rows) > Len(db.schedules)
    /\ Len(normalize_substitutions(probe.raw).rows) > Len(db.substitutions)

\* The ids of the stored classes.
ClassIds(store) == {store.classes[i].id : i \in 1..Len(store.classes)}

\* C30: every lesson row and every substitution row of the committed store
\* carries the id of exactly one stored class, and after a committed
\* synchronization that class is the one the payload names for the row,
\* also when the class was inserted by that same synchronization.
C30_RowsReferenceStoredClass ==
    /\ \A i \in 1..Len(db.schedules) :
          /\ db.schedules[i].class_id \in ClassIds(db)
          /\ Cardinality({j \in 1..Len(db.classes) :
                 db.classes[j].id = db.schedules[i].class_id}) = 1
    /\ \A i \in 1..Len(db.substitutions) :
          /\ db.substitutions[i].class_id \in ClassIds(db)
          /\ Cardinality({j \in 1..Len(db.classes) :
                 db.classes[j].id = db.substitutions[i].class_id}) = 1
    /\ (probe.stage = "sync" /\ probe.ok) =>
          LET new == {c \in ListedClasses(probe.raw) :
                         ExistingClass(probe.pre.classes, c) = 0}
          IN  /\ \A l \in Elems(normalize_schedule(probe.raw).rows) :
                    l.class_id \in new =>
                        \E i \in 1..Len(db.schedules) :
                            ExternalIdOf(db.classes, db.schedules[i].class_id)
                                = l.class_id
              /\ \A x \in Elems(normalize_substitutions(probe.raw).rows) :
                    x.class_id \in new =>
                        \E i \in 1..Len(db.substitutions) :
                            ExternalIdOf(db.classes, db.substitutions[i].class_id)
                                = x.class_id

\* A committed synchronization onto a store with a class inserted a second
\* class and, with it, a lesson and a substitution that point to it.
C30_Witness ==
    /\ probe.stage = "sync" /\ probe.ok
    /\ probe.pre.classes # << >>
    /\ \E c \in ClassIds(db) \ ClassIds(probe.pre) :
          /\ c > 1
          /\ \E i \in 1..Len(db.schedules) : db.schedules[i].class_id = c
          /\ \E i \in 1..Len(db.substitutions) : db.substitutions[i].class_id = c

\* C14: a lesson of a class the payload does not list is left out of the
\* inserted rows and the lesson insert raises nothing, also when no lesson
\* of the payload is left to insert.
C14_UnmappedLessonsCauseNoError ==
    probe.stage = "sync" =>
        /\ probe.at # "insert_schedule"
        /\ probe.ok =>
              \A i \in 1..Len(db.schedules) :
                  ExternalIdOf(db.classes, db.schedules[i].class_id)
                      \in ListedClasses(probe.raw)

\* C15: a substitution of a class the payload does not list is left out of
\* the inserted rows and the substitution insert raises nothing, also when
\* no substitution of the payload is left to insert; the rows the table
\* held before are gone all the same.
C15_UnmappedSubstitutionsCauseNoError ==
    probe.stage = "sync" =>
        /\ probe.at # "insert_substitutions"
        /\ probe.ok =>
              /\ \A i \in 1..Len(db.substitutions) :
                    ExternalIdOf(db.classes, db.substitutions[i].class_id)
                        \in ListedClasses(probe.raw)
              /\ Len(db.substitutions) =
                    Cardinality({i \in 1..Len(normalize_substitutions(probe.raw).rows) :
                        normalize_substitutions(probe.raw).rows[i].class_id
                            \in ListedClasses(probe.raw)})

\* Every substitution of the payload was unmapped; the synchronization was
\* committed and emptied a table that held rows.
C15_Witness ==
    /\ probe.stage = "sync" /\ probe.ok
    /\ normalize_substitutions(probe.raw).rows # << >>
    /\ probe.pre.substitutions # << >> /\ db.substitutions = << >>

Rows(table) == {table[i] : i \in 1..Len(table)}

ExternalIds(table) == {table[i].external_id : i \in 1..Len(table)}

\* C16: an application of a payload, committed or not, leaves every class
\* row and every teacher row in the store, so the persisted external ids
\* only grow, also when the payload does not carry them.
C16_ClassesAndTeachersNeverDeleted ==
    probe.stage = "sync" =>
        /\ \A c \in Rows(probe.pre.classes) : \E d \in Rows(db.classes) :
              d.id = c.id /\ d.external_id = c.external_id
        /\ \A t \in Rows(probe.pre.teachers) : \E d \in Rows(db.teachers) :
              d.id = t.id /\ d.external_id = t.external_id
        /\ ExternalIds(probe.pre.classes) \subseteq ExternalIds(db.classes)
        /\ ExternalIds(probe.pre.teachers) \subseteq ExternalIds(db.teachers)

\* The committed payload lists neither a stored class nor a stored teacher.
C16_Witness ==
    /\ probe.stage = "sync" /\ probe.ok
    /\ \E c \in Rows(probe.pre.classes) :
          c.external_id \notin ListedClasses(probe.raw)
    /\ \E t \in Rows(probe.pre.teachers) :
          probe.raw.TEACHERS.kind = "map"
              /\ t.external_id \notin Keys(probe.raw.TEACHERS.items)
    /\ db.teachers # probe.pre.teachers

\* C17: an application of a payload leaves every stored teacher row as it
\* was, name included, whatever name the payload has for its external id,
\* and the rows it adds have external ids that were not stored.
C17_TeachersInsertOnly ==
    probe.stage = "sync" =>
        /\ Len(probe.pre.teachers) <= Len(db.teachers)
        /\ SubSeq(db.teachers, 1, Len(probe.pre.teachers)) = probe.pre.teachers
        /\ \A i \in (Len(probe.pre.teachers) + 1)..Len(db.teachers) :
              /\ db.teachers[i].external_id \notin ExternalIds(probe.pre.teachers)
              /\ <<db.teachers[i].external_id, db.teachers[i].name>>
                    \in Rows(probe.raw.TEACHERS.items)

\* The committed payload has another name for a stored teacher.
C17_Witness ==
    /\ probe.stage = "sync" /\ probe.ok /\ probe.raw.TEACHERS.kind = "map"
    /\ \E t \in Rows(probe.pre.teachers) : \E kv \in Rows(probe.raw.TEACHERS.items) :
          kv[1] = t.external_id /\ kv[2] # t.name

\* C18: after a committed application each class the payload lists is
\* stored once under its external id, with the payload's name and the grade
\* of that name; it has the id it had before when the external id was
\* stored, and an id no class had before when it was not.
C18_ClassesUpsertedByExternalId ==
    (probe.stage = "sync" /\ probe.ok /\ probe.raw.CLASSES.kind = "map") =>
        \A kv \in Rows(probe.raw.CLASSES.items) :
            LET now == {d \in Rows(db.classes) : d.external_id = kv[1]}
                was == {c \in Rows(probe.pre.classes) : c.external_id = kv[1]}
            IN  /\ Cardinality(now) = 1
                /\ \A d \in now :
                      /\ d.name = kv[2] /\ d.grade_level = GradeOf(kv[2])
                      /\ was # {} => \A c \in was : c.id = d.id
                      /\ was = {} =>
                            \A c \in Rows(probe.pre.classes) : c.id # d.id

\* One stored class got another name and grade, and a new class was
\* inserted, in one committed application.
C18_Witness ==
    /\ probe.stage = "sync" /\ probe.ok
    /\ \E c \in Rows(probe.pre.classes) : \E d \in Rows(db.classes) :
          /\ d.id = c.id /\ d.name # c.name /\ d.grade_level # c.grade_level
    /\ Len(db.classes) > Len(probe.pre.classes)

\* C19: whatever payloads were applied, committed or aborted, no two class
\* rows have one external id and no two teacher rows have one external id.
C19_ExternalIdsUnique ==
    probe.stage = "sync" =>
        /\ \A i, j \in 1..Len(db.classes) :
              db.classes[i].external_id = db.classes[j].external_id => i = j
        /\ \A i, j \in 1..Len(db.teachers) :
              db.teachers[i].external_id = db.teachers[j].external_id => i = j

\* An application was aborted by the store over two classes and two
\* teachers, after a committed one.
C19_Witness ==
    /\ probe.stage = "sync" /\ ~probe.ok /\ probe.prev_ok
    /\ probe.at \in {"sync_classes", "sync_teachers"}
    /\ Len(db.classes) >= 2 /\ Len(db.teachers) >= 2

(***************************************************************************)
(* The substitution normalizer on its own: normalize_substitutions applied *)
(* to payloads with one class, one date and two slots.                     *)
(***************************************************************************)
\* What a slot may hold under "s", "t" and "r"; Absent: the key is missing.
SubjectRefs ==
    {Absent, Str("F"), Lst(<<"F">>), Lst(<<"036">>), Str("036"), Lst(<< >>)}

TeacherRefs == {Absent, Lst(<<"044">>), Str("044")}

RoomRefs == {Absent, Lst(<<"005">>)}

SlotKeys == {"1", "x1"}

\* The slot data as the decoder gives it: the keys that are present.
SlotOf(s, t, r) ==
    (IF s = Absent THEN << >> ELSE << <<"s", s>> >>)
        \o (IF t = Absent THEN << >> ELSE << <<"t", t>> >>)
        \o (IF r = Absent THEN << >> ELSE << <<"r", r>> >>)

\* {"5": {"20.01.2026": {key: slot, "2": {"s": "F", "r": ["005"]}}}}
ExchangeOf(key, slot) ==
    Obj(<< <<"5", Obj(<< <<"20.01.2026",
            << <<key, slot>>,
               <<"2", SlotOf(Str("F"), Absent, Lst(<<"005">>))>> >> >> >>)>> >>)

SubstitutionInputs ==
    {RawData(Obj(<< <<"5", "10A">> >>), teachers, Absent,
             ExchangeOf(key, SlotOf(s, t, r)), subjects, Absent, FALSE) :
        key \in SlotKeys, s \in SubjectRefs, t \in TeacherRefs, r \in RoomRefs,
        subjects \in {Absent, Null, Obj(<< <<"036", "Math">> >>)},
        teachers \in {Null, Obj(<< <<"044", "Ivanov">> >>)}}

InitSubstitutions ==
    /\ db = EmptyStore
    /\ users = [u \in TelegramIds |-> "absent"]
    /\ pc = [p \in Invocations |-> "idle"]
    /\ local = [p \in Invocations |-> IdleLocal]
    /\ trace = [p \in Invocations |-> IdleTrace]
    /\ last_synced = NeverSynced
    /\ seen = NothingSeen
    /\ probe \in {[stage |-> "subs_in", raw |-> raw, result |-> Raised] :
                     raw \in SubstitutionInputs}

\* Line 179: subs_data = parser.normalize_substitutions(raw_data).
ApplyNormalizeSubstitutions ==
    /\ probe.stage = "subs_in"
    /\ probe' = [probe EXCEPT !.stage = "subs_out",
                              !.result = normalize_substitutions(probe.raw)]
    /\ UNCHANGED <<db, users, pc, local, trace, last_synced, seen>>

SpecSubstitutions ==
    InitSubstitutions /\ [][ApplyNormalizeSubstitutions]_vars

\* The slots of the payload's one date that have a digit-string key: the
\* ones the normalizer makes records of, in order.
NumberedSlots(raw) ==
    SelectSeq(raw.CLASS_EXCHANGE.items[1][2].items[1][2],
              LAMBDA kv : IsDigitStr(kv[1]))

SubjectRef(slot) == Get(slot[2], "s", Lst(<< >>))

\* C20: the record of a slot whose subject reference is the string "F" has
\* is_cancelled true and no subject, teacher or room, whatever else the slot
\* and the lookup tables hold; the record of any other slot has is_cancelled
\* false; and a slot with "F" never makes the normalizer raise.
C20_CancellationSentinel ==
    probe.stage = "subs_out" =>
        LET slots == NumberedSlots(probe.raw)
            rows == probe.result.rows
        IN  /\ probe.result.ok =>
                  /\ Len(rows) = Len(slots)
                  /\ \A i \in 1..Len(slots) :
                        IF SubjectRef(slots[i]) = Str("F")
                        THEN /\ rows[i].is_cancelled
                             /\ rows[i].subject_name = PyNone
                             /\ rows[i].teacher_name = PyNone
                             /\ rows[i].room_number = PyNone
                        ELSE ~rows[i].is_cancelled
            /\ ~probe.result.ok =>
                  \E i \in 1..Len(slots) : SubjectRef(slots[i]) # Str("F")

\* Two cancelled slots, one with a teacher and a room reference and a null
\* teacher table, the other with a room reference.
C20_Witness ==
    /\ probe.stage = "subs_out" /\ probe.result.ok
    /\ Len(probe.result.rows) = 2
    /\ probe.result.rows[1].is_cancelled /\ probe.result.rows[2].is_cancelled
    /\ HasKey(NumberedSlots(probe.raw)[1][2], "t")
    /\ HasKey(NumberedSlots(probe.raw)[1][2], "r")
    /\ probe.raw.TEACHERS = Null

(***************************************************************************)
(* The four normalizers and the synchronization applied to one payload:    *)
(* class names with and without digits, slot keys below 100, multiples of  *)
(* 100 and non-numeric ones, sections that are absent or null, class       *)
(* schedules, date maps and slot entries that are not objects.             *)
(***************************************************************************)
ClassNames == {"10A", "9B", "B", "", "A1B22", "007"}

\* CLASSES: absent, null, or {"5": name, "7": "9B"}.
NormClasses ==
    {Absent, Null} \cup {Obj(<< <<"5", n>>, <<"7", "9B">> >>) : n \in ClassNames}

NormSlotKeys == {"101", "x1", "7", "99", "100", "800", "007"}

NormSlotData == {SlotData(<<"036">>, << >>, << >>), NullSlot}

\* CLASS_SCHEDULE: absent, null, {}, a class schedule that is not an object,
\* {"60": {"5": {key: slot, "512": {...}}}}, and two periods.
NormSchedules ==
    {Absent, Null, Obj(<< >>), Obj(<< <<"60", << <<"5", NotObj>> >> >> >>),
     Obj(<< <<"60", << <<"5", Obj(<<Lesson101>>)>> >> >>,
            <<"61", << <<"5", Obj(<<Lesson512>>)>> >> >> >>)}
        \cup {Obj(<< <<"60", << <<"5", Obj(<< <<k, d>>, Lesson512 >>)>> >> >> >>) :
                 k \in NormSlotKeys, d \in NormSlotData}

\* CLASS_EXCHANGE: absent, null, a cancellation, a date map that is not an
\* object, a slot entry that is not an object.
NormExchanges ==
    {Absent, Null, ExchangeCancel5, Obj(<< <<"5", NotObj>> >>),
     Obj(<< <<"5", Obj(<< <<"20.01.2026", << <<"1", NullSlot>> >> >> >>)>> >>)}

NormalizeInputs ==
    {RawData(classes, teachers, schedule, exchange, subjects, Absent, FALSE) :
        classes \in NormClasses,
        teachers \in {Absent, Null, Obj(<< <<"044", "Ivanov">> >>)},
        schedule \in NormSchedules,
        exchange \in NormExchanges,
        subjects \in {Absent, Null, Obj(<< <<"036", "Math">> >>)}}

InitNormalize ==
    /\ db = EmptyStore
    /\ users = [u \in TelegramIds |-> "absent"]
    /\ pc = [p \in Invocations |-> "idle"]
    /\ local = [p \in Invocations |-> IdleLocal]
    /\ trace = [p \in Invocations |-> IdleTrace]
    /\ last_synced = NeverSynced
    /\ seen = NothingSeen
    /\ probe \in {[stage |-> "norm_in", raw |-> raw, classes |-> Raised,
                   teachers |-> Raised, schedule |-> Raised,
                   substitutions |-> Raised, synced |-> Aborted("none")] :
                     raw \in NormalizeInputs}

\* The four normalize_* calls of update_database on one payload, and
\* update_database itself on the empty store.
ApplyNormalizers ==
    /\ probe.stage = "norm_in"
    /\ probe' = [probe EXCEPT
                    !.stage = "norm_out",
                    !.classes = normalize_classes(probe.raw),
                    !.teachers = normalize_teachers(probe.raw),
                    !.schedule = normalize_schedule(probe.raw),
                    !.substitutions = normalize_substitutions(probe.raw),
                    !.synced = update_database(EmptyStore, probe.raw)]
    /\ UNCHANGED <<db, users, pc, local, trace, last_synced, seen>>

SpecNormalize == InitNormalize /\ [][ApplyNormalizers]_vars

\* The slot keys of the domain that are decimal strings, and their values.
DecimalKeys == {"101", "512", "7", "99", "100", "800", "007"}

KeyValue(k) ==
    CASE k = "101" -> 101
      [] k = "512" -> 512
      [] k = "7"   -> 7
      [] k = "99"  -> 99
      [] k = "100" -> 100
      [] k = "800" -> 800
      [] k = "007" -> 7

\* The <<class, slot>> pairs of the first period, class by class, of the
\* class schedules that are objects.
FirstPeriodSlots(raw) ==
    LET full_schedule == raw.CLASS_SCHEDULE.items[1][2]
    IN  Flatten([c \in 1..Len(full_schedule) |->
            IF full_schedule[c][2].kind # "map" THEN << >>
            ELSE [k \in 1..Len(full_schedule[c][2].items) |->
                     <<full_schedule[c][1], full_schedule[c][2].items[k]>>]])

\* C21: the lessons normalize_schedule returns are, in order, one per slot of
\* the first period whose key is a decimal string, with day = floor(k / 100) - 1
\* and number = k mod 100 for the key's value k ("101": day 0, lesson 1;
\* "512": day 4, lesson 12); a slot whose key is not a decimal string gives
\* no lesson.
C21_SlotDecoding ==
    (/\ probe.stage = "norm_out" /\ probe.schedule.ok
     /\ probe.raw.CLASS_SCHEDULE.kind = "map"
     /\ probe.raw.CLASS_SCHEDULE.items # << >>) =>
        LET slots == SelectSeq(FirstPeriodSlots(probe.raw),
                               LAMBDA cs : cs[2][1] \in DecimalKeys)
            rows == probe.schedule.rows
        IN  /\ Len(rows) = Len(slots)
            /\ \A i \in 1..Len(slots) :
                  LET k == KeyValue(slots[i][2][1])
                  IN  /\ rows[i].class_id = slots[i][1]
                      /\ rows[i].day = (k \div 100) - 1
                      /\ rows[i].number = k % 100
                      /\ slots[i][2][1] = "101" =>
                             rows[i].day = 0 /\ rows[i].number = 1
                      /\ slots[i][2][1] = "512" =>
                             rows[i].day = 4 /\ rows[i].number = 12

\* A class schedule {"x1": ..., "512": ...}: the first slot gives no lesson,
\* the second one the Friday lesson 12.
C21_Witness ==
    /\ probe.stage = "norm_out" /\ probe.schedule.ok
    /\ probe.raw.CLASS_SCHEDULE.kind = "map"
    /\ probe.raw.CLASS_SCHEDULE.items # << >>
    /\ Len(FirstPeriodSlots(probe.raw)) = 2
    /\ FirstPeriodSlots(probe.raw)[1][2][1] = "x1"
    /\ Len(probe.schedule.rows) = 1
    /\ probe.schedule.rows[1].day = 4 /\ probe.schedule.rows[1].number = 12

\* The value of a run of decimal digits, read from the left.
RECURSIVE Horner(_, _)
Horner(acc, digits) ==
    IF digits = << >> THEN acc
    ELSE Horner(10 * acc + DigitVal(Head(digits)), Tail(digits))

\* cs[b..e] is the first maximal run of digits of cs.
IsFirstDigitRun(cs, b, e) ==
    /\ b <= e
    /\ \A j \in 1..(b - 1) : cs[j] \notin Digits
    /\ \A j \in b..e : cs[j] \in Digits
    /\ e = Len(cs) \/ cs[e + 1] \notin Digits

\* C22: normalize_classes returns one record per entry of CLASSES, in order,
\* with the entry's key and name, and with grade the integer value of the
\* first maximal run of decimal digits of the name, 0 for a name without a
\* digit ("10A" gives 10).
C22_GradeIsFirstDigitRun ==
    (probe.stage = "norm_out" /\ probe.classes.ok) =>
        LET entries == probe.raw.CLASSES.items
            rows == probe.classes.rows
        IN  /\ Len(rows) = Len(entries)
            /\ \A i \in 1..Len(entries) :
                  LET cs == Chars(entries[i][2])
                  IN  /\ rows[i].id = entries[i][1]
                      /\ rows[i].name = entries[i][2]
                      /\ IF \A j \in 1..Len(cs) : cs[j] \notin Digits
                         THEN rows[i].grade = 0
                         ELSE \E b \in 1..Len(cs), e \in 1..Len(cs) :
                                 /\ IsFirstDigitRun(cs, b, e)
                                 /\ rows[i].grade = Horner(0, SubSeq(cs, b, e))
                      /\ entries[i][2] = "10A" => rows[i].grade = 10

\* The name "A1B22": the run starts inside the name and a later run follows.
C22_Witness ==
    /\ probe.stage = "norm_out" /\ probe.classes.ok
    /\ Len(probe.classes.rows) = 2
    /\ probe.classes.rows[1].name = "A1B22" /\ probe.classes.rows[1].grade = 1
    /\ probe.classes.rows[2].name = "9B" /\ probe.classes.rows[2].grade = 9

\* C23: each of the four normalize operations returns for every payload and
\* never raises.
C23_NormalizersNeverRaise ==
    probe.stage = "norm_out" =>
        /\ probe.classes.ok /\ probe.teachers.ok
        /\ probe.schedule.ok /\ probe.substitutions.ok

\* C25: every lesson normalize_schedule produces and update_database
\* persists has day_of_week in 0..6 and a positive lesson_number, for every
\* payload whose slot keys are decimal strings.
C25_PersistedLessonsInRange ==
    (/\ probe.stage = "norm_out" /\ probe.synced.ok
     /\ probe.raw.CLASS_SCHEDULE.kind = "map"
     /\ probe.raw.CLASS_SCHEDULE.items # << >>
     /\ \A i \in 1..Len(FirstPeriodSlots(probe.raw)) :
           FirstPeriodSlots(probe.raw)[i][2][1] \in DecimalKeys) =>
        \A i \in 1..Len(probe.synced.store.schedules) :
            /\ probe.synced.store.schedules[i].day_of_week \in 0..6
            /\ probe.synced.store.schedules[i].lesson_number > 0

(***************************************************************************)
(* Repeated cycles on a source that stops changing: no fetch fails, the    *)
(* store refuses nothing of its own accord, cycles do not overlap.         *)
(***************************************************************************)
\* Payloads with classes and teachers renamed and re-keyed; each of them is
\* synchronized without error from the empty store.
RetryPayloads ==
    {PayloadA, PayloadB, PayloadRename, PayloadTeacher, PayloadTeacher2,
     PayloadBare}

\* PayloadA and PayloadB under each of these SUBJECTS and ROOMS tables.
LookupPayloads ==
    {[base EXCEPT !.SUBJECTS = subjects, !.ROOMS = rooms] :
        base \in {PayloadA, PayloadB},
        subjects \in {Absent, Obj(<< <<"036", "Math">> >>),
                      Obj(<< <<"036", "Algebra">> >>)},
        rooms \in {Absent, Obj(<< <<"005", "Room 5">> >>),
                   Obj(<< <<"005", "Lab">> >>)}}

\* Payloads without lessons: {}, no CLASS_SCHEDULE key, "CLASS_SCHEDULE": {};
\* and two with lessons.
WipePayloads ==
    {NoData, PayloadBare, PayloadA, PayloadB,
     [PayloadA EXCEPT !.CLASS_SCHEDULE = Obj(<< >>)],
     [PayloadB EXCEPT !.CLASS_SCHEDULE = Absent],
     [PayloadB EXCEPT !.CLASS_SCHEDULE = Obj(<< >>)]}

\* new_hash of each payload a whole cycle is run on, computed once.
CycleHash ==
    [raw \in SyncPayloads \cup LookupPayloads \cup WipePayloads |-> NewHash(raw)]

\* Lines 62-82 of the cycle once update_database has returned or raised:
\* the digest is written and the session committed, or rolled back.
AfterUpdate(store, raw, r) ==
    IF r.ok
    THEN [store |-> WriteHash([IdleLocal EXCEPT !.view = r.store,
                                                !.new_hash = CycleHash[raw]]),
          outcome |-> "synced"]
    ELSE [store |-> SessionClose(store, [IdleLocal EXCEPT !.in_tx = TRUE,
                                                          !.view = r.store]),
          outcome |-> "failed"]

\* One whole cycle on the committed store: the digest is compared, the
\* payload synchronized and committed, or the session rolled back.
run_update_cycle(store, raw) ==
    IF ~HasData(raw) THEN [store |-> store, outcome |-> "no_data"]
    ELSE IF HashMatches(CycleHash[raw], OldHash(store.meta))
    THEN [store |-> store, outcome |-> "unchanged"]
    ELSE AfterUpdate(store, raw, update_database(store, raw))

\* Rounds of cycles the table is carried through; the stores of the last
\* round lead to stores of the table only, so more rounds add nothing.
MaxRounds == 5

RECURSIVE CyclesFrom(_, _, _)

\* The table with the cycles on the frontier added, carried on from the
\* stores those lead to.
CyclesWith(table, frontier, cycles, rounds) ==
    CyclesFrom([store \in DOMAIN table \cup frontier |->
                   IF store \in frontier THEN cycles[store] ELSE table[store]],
               {cycles[store][raw].store :
                   store \in frontier, raw \in RetryPayloads}
                   \ (DOMAIN table \cup frontier),
               rounds)

\* run_update_cycle tabulated over the stores that cycles on these payloads
\* lead to from the frontier within so many rounds.
CyclesFrom(table, frontier, rounds) ==
    IF frontier = {} \/ rounds = 0 THEN table
    ELSE CyclesWith(table, frontier,
             [store \in frontier |->
                 [raw \in RetryPayloads |-> run_update_cycle(store, raw)]],
             rounds - 1)

\* run_update_cycle on each store reached from the empty one, computed once.
CycleTable == CyclesFrom([store \in {} |-> << >>], {EmptyStore}, MaxRounds)

RetryStores == DOMAIN CycleTable

\* stage "earlier": the source still changes; "fixed": it serves raw from
\* now on, and outcome is how the last cycle on raw ended.
InitRetry ==
    /\ db = EmptyStore
    /\ users = [u \in TelegramIds |-> "absent"]
    /\ pc = [p \in Invocations |-> "idle"]
    /\ local = [p \in Invocations |-> IdleLocal]
    /\ trace = [p \in Invocations |-> IdleTrace]
    /\ last_synced = NeverSynced
    /\ seen = NothingSeen
    /\ probe = [stage |-> "earlier", raw |-> NoData, outcome |-> "none"]

\* A cycle while the source still changes.
EarlierCycle(raw) ==
    /\ probe.stage = "earlier"
    /\ db' = CycleTable[db][raw].store
    /\ UNCHANGED <<users, pc, local, trace, last_synced, seen, probe>>

\* The source changes for the last time.
FixSource(raw) ==
    /\ probe.stage = "earlier"
    /\ probe' = [stage |-> "fixed", raw |-> raw, outcome |-> "none"]
    /\ UNCHANGED <<db, users, pc, local, trace, last_synced, seen>>

\* The cycle has ended as the record says.
CycleEnds(cycle) ==
    /\ db' = cycle.store
    /\ probe' = [probe EXCEPT !.outcome = cycle.outcome]

\* The interval job runs a cycle on the fixed payload.
RetryCycle ==
    /\ probe.stage = "fixed"
    /\ CycleEnds(CycleTable[db][probe.raw])
    /\ UNCHANGED <<users, pc, local, trace, last_synced, seen>>

NextRetry ==
    \/ \E raw \in RetryPayloads : EarlierCycle(raw)
    \/ \E raw \in RetryPayloads : FixSource(raw)
    \/ RetryCycle

\* The scheduler keeps running the job (IntervalTrigger, scheduler.py).
SpecRetry == InitRetry /\ [][NextRetry]_vars /\ WF_vars(RetryCycle)

\* The lesson rows of the store are the lessons of the payload, for the
\* classes it lists.
HoldsLessonsOf(store, raw) ==
    LET lessons == SelectSeq(normalize_schedule(raw).rows,
                             LAMBDA l : l.class_id \in ListedClasses(raw))
    IN  /\ Len(store.schedules) = Len(lessons)
        /\ \A i \in 1..Len(lessons) :
              /\ ExternalIdOf(store.classes, store.schedules[i].class_id)
                    = lessons[i].class_id
              /\ store.schedules[i].day_of_week = lessons[i].day
              /\ store.schedules[i].lesson_number = lessons[i].number
              /\ store.schedules[i].subject_name = lessons[i].subject

Converged ==
    /\ probe.stage = "fixed"
    /\ db.meta.present /\ db.meta.value = SyncHash[probe.raw]
    /\ HoldsLessonsOf(db, probe.raw)

\* C26: once the source serves one payload for good, the repeated cycles
\* reach a store whose digest is that payload's and whose lessons are that
\* payload's, whatever store the earlier cycles left.
C26_RetryConverges == (probe.stage = "fixed") ~> Converged

(***************************************************************************)
(* Overlapping invocations.  Nothing in run_update_cycle, in the forced    *)
(* update handler or in the interval job keeps a second cycle from running *)
(* while one is in progress; the coroutines interleave at each await.      *)
(* Each cycle has its own session and connection to the SQLite file        *)
(* (database/session.py).  A SELECT made before the connection's first     *)
(* INSERT, UPDATE or DELETE reads the committed store; the first such      *)
(* statement opens the write transaction, which one connection at a time   *)
(* holds until it commits or rolls back; the others wait for it, and a     *)
(* wait that times out is a statement that raises.                         *)
(***************************************************************************)
\* MayStart with a single-flight guard: no cycle starts while one runs.
MayStartSingleFlight(p) == \A q \in Invocations : ~Running(q)

\* What run_update_cycle checks before it starts: nothing.
MayStart(p) == TRUE

\* The invocation whose session holds the write transaction, "none" if none.
Writer ==
    IF probe.writer \in Invocations
    THEN (IF local[probe.writer].in_tx THEN probe.writer ELSE "none")
    ELSE "none"

\* What the statements of p's session work on: its own transaction's data
\* when it holds the write transaction, else the committed store.
Base(p) == IF Writer = p THEN local[p].view ELSE db

\* The UPDATE statements of the class flush for the objects loaded by the
\* earlier select, applied to the table as it is now: rows are never
\* deleted, so the loaded object i is row i.
RECURSIVE FlushLoadedUpdates(_, _, _, _)
FlushLoadedUpdates(table, loaded, i, normalized) ==
    IF i > Len(loaded) THEN Flushed(table)
    ELSE LET hits == {n \in 1..Len(normalized) :
                         /\ normalized[n].id = loaded[i].external_id
                         /\ ExistingClass(loaded, normalized[n].id) = i}
         IN  IF hits = {} THEN FlushLoadedUpdates(table, loaded, i + 1, normalized)
             ELSE LET new == normalized[CHOOSE n \in hits : TRUE]
                      name == IF loaded[i].name # new.name
                              THEN new.name ELSE table[i].name
                      grade == IF loaded[i].grade_level # new.grade
                               THEN new.grade ELSE table[i].grade_level
                  IN  IF loaded[i].name = new.name
                         /\ loaded[i].grade_level = new.grade
                      THEN FlushLoadedUpdates(table, loaded, i + 1, normalized)
                      ELSE IF NameTaken(table, name, i) THEN IntegrityError
                      ELSE FlushLoadedUpdates(
                               [table EXCEPT ![i].name = name,
                                             ![i].grade_level = grade],
                               loaded, i + 1, normalized)

\* The classes the loop of lines 100-119 adds to the session.
PendingClasses(loaded, normalized) ==
    SelectSeq(normalized, LAMBDA c : ExistingClass(loaded, c.id) = 0)

\* The flush of line 121 emits a statement: an object is new or was changed.
ClassFlushWrites(loaded, normalized) ==
    \/ PendingClasses(loaded, normalized) # << >>
    \/ \E n \in 1..Len(normalized) :
          LET i == ExistingClass(loaded, normalized[n].id)
          IN  /\ i # 0
              /\ \/ loaded[i].name # normalized[n].name
                 \/ loaded[i].grade_level # normalized[n].grade

\* The flush of line 121 on the table as it is now.
FlushClassesOnto(table, loaded, normalized) ==
    LET updated == FlushLoadedUpdates(table, loaded, 1, normalized)
    IN  IF updated.ok
        THEN FlushClassInserts(updated.table, PendingClasses(loaded, normalized))
        ELSE IntegrityError

\* The teachers lines 136-141 make new objects of.
PendingTeachers(selected, normalized) ==
    SelectSeq(normalized, LAMBDA t :
        t.id \notin {selected[i].external_id : i \in 1..Len(selected)})

\* What the source serves while the cycles overlap.
OverlapPayloads == {PayloadA, PayloadB}

\* One user has registered and turned the notifications on.
InitOverlap ==
    /\ db = EmptyStore
    /\ users = [u \in TelegramIds |-> IF u = 1 THEN "on" ELSE "absent"]
    /\ pc = [p \in Invocations |-> "idle"]
    /\ local = [p \in Invocations |-> IdleLocal]
    /\ trace = [p \in Invocations |-> IdleTrace]
    /\ last_synced = NeverSynced
    /\ seen = NothingSeen
    /\ probe = [stage |-> "overlap", writer |-> "none"]

\* fetch_schedule_data as a whole: a payload, or nothing when a request or
\* the decoding fails.
Fetch(p) ==
    /\ pc[p] = "fetch_page"
    /\ \E data \in OverlapPayloads \cup {NoData} :
          AfterFetch(p, data,
              [trace[p] EXCEPT !.fetch = IF HasData(data) THEN "ok" ELSE "failed"])
    /\ UNCHANGED <<users, last_synced, seen, probe>>

\* Lines 91-96: the classes are normalized and the stored ones loaded.
SelectClasses(p) ==
    /\ pc[p] = "sync_classes"
    /\ IF ~normalize_classes(local[p].raw_data).ok
       THEN Raise(p, trace[p])
       ELSE /\ pc' = [pc EXCEPT ![p] = "flush_classes"]
            /\ local' = [local EXCEPT ![p].view.classes = Base(p).classes]
            /\ UNCHANGED <<db, trace>>
    /\ UNCHANGED <<users, last_synced, seen, probe>>

\* Lines 98-121: the loaded classes are compared with the payload and the
\* session flushed; a flush with a statement to emit takes the write
\* transaction.
FlushClasses(p) ==
    /\ pc[p] = "flush_classes"
    /\ LET n == normalize_classes(local[p].raw_data).rows
           loaded == local[p].view.classes
           r == FlushClassesOnto(Base(p).classes, loaded, n)
       IN  IF ~ClassFlushWrites(loaded, n)
           THEN /\ pc' = [pc EXCEPT ![p] = "sync_teachers"]
                /\ local' = [local EXCEPT ![p].class_map = ClassMap(loaded, n)]
                /\ UNCHANGED <<db, trace, probe>>
           ELSE /\ Writer \in {"none", p}
                /\ IF ~r.ok
                   THEN Raise(p, trace[p]) /\ probe' = probe
                   ELSE /\ pc' = [pc EXCEPT ![p] = "sync_teachers"]
                        /\ local' = [local EXCEPT
                               ![p].view = [Base(p) EXCEPT !.classes = r.table],
                               ![p].class_map = ClassMap(r.table, n)]
                        /\ probe' = [probe EXCEPT !.writer = p]
                        /\ UNCHANGED <<db, trace>>
    /\ UNCHANGED <<users, last_synced, seen>>

\* Lines 128-133: the teachers are normalized, the stored external ids read.
SelectTeachers(p) ==
    /\ pc[p] = "sync_teachers"
    /\ IF ~normalize_teachers(local[p].raw_data).ok
       THEN Raise(p, trace[p])
       ELSE /\ pc' = [pc EXCEPT ![p] = "flush_teachers"]
            /\ local' = [local EXCEPT ![p].view.teachers = Base(p).teachers]
            /\ UNCHANGED <<db, trace>>
    /\ UNCHANGED <<users, last_synced, seen, probe>>

\* Lines 135-147: the teachers with a new external id are added and flushed.
FlushTeachers(p) ==
    /\ pc[p] = "flush_teachers"
    /\ LET pending == PendingTeachers(local[p].view.teachers,
                                      normalize_teachers(local[p].raw_data).rows)
           r == FlushTeacherInserts(Base(p).teachers, pending)
       IN  IF pending = << >>
           THEN /\ pc' = [pc EXCEPT ![p] = "delete_schedule"]
                /\ UNCHANGED <<db, local, trace, probe>>
           ELSE /\ Writer \in {"none", p}
                /\ IF ~r.ok
                   THEN Raise(p, trace[p]) /\ probe' = probe
                   ELSE /\ pc' = [pc EXCEPT ![p] = "delete_schedule"]
                        /\ local' = [local EXCEPT
                               ![p].view = [Base(p) EXCEPT !.teachers = r.table]]
                        /\ probe' = [probe EXCEPT !.writer = p]
                        /\ UNCHANGED <<db, trace>>
    /\ UNCHANGED <<users, last_synced, seen>>

\* Line 152: delete(Schedule), the first statement that always writes.
DeleteScheduleLocked(p) ==
    /\ pc[p] = "delete_schedule"
    /\ Writer \in {"none", p}
    /\ pc' = [pc EXCEPT ![p] = "insert_schedule"]
    /\ local' = [local EXCEPT
           ![p].view = [Base(p) EXCEPT !.schedules = DeleteRows(@)]]
    /\ probe' = [probe EXCEPT !.writer = p]
    /\ UNCHANGED <<db, users, trace, last_synced, seen>>

\* Lines 68-79 on the write transaction: with no digest record read at line
\* 54 one is inserted, and the insert fails on the primary key when another
\* cycle has committed one since; else the record's value is updated.
CommitLocked(p) ==
    /\ pc[p] = "commit"
    /\ IF local[p].old_hash = << >> /\ local[p].view.meta.present
       THEN /\ Raise(p, trace[p])
            /\ UNCHANGED <<last_synced, probe>>
       ELSE /\ db' = WriteHash(local[p])
            /\ local' = [local EXCEPT ![p].view = WriteHash(local[p])]
            /\ trace' = [trace EXCEPT ![p].committed = TRUE,
                                      ![p].post = WriteHash(local[p]),
                                      ![p].outcome = "synced"]
            /\ last_synced' = [present |-> TRUE, raw |-> local[p].raw_data,
                                hash |-> local[p].new_hash]
            /\ pc' = [pc EXCEPT ![p] = AfterCommit(local[p].bot)]
            /\ probe' = [probe EXCEPT !.writer = "none"]
    /\ UNCHANGED <<users, seen>>

\* A statement of the two flushes raises: the store refuses it, or the wait
\* for the write transaction times out.
FlushFault(p) ==
    /\ pc[p] \in {"flush_classes", "flush_teachers"}
    /\ Raise(p, trace[p])
    /\ UNCHANGED <<users, last_synced, seen, probe>>

OverlapStep(p) ==
    \/ Fetch(p) \/ ReadHash(p)
    \/ SelectClasses(p) \/ FlushClasses(p)
    \/ SelectTeachers(p) \/ FlushTeachers(p)
    \/ DeleteScheduleLocked(p) \/ InsertScheduleStep(p)
    \/ DeleteSubstitutions(p) \/ InsertSubstitutionsStep(p)
    \/ CommitLocked(p) \/ StoreFault(p) \/ FlushFault(p)
    \/ SelectUsers(p) \/ Send(p) \/ Exit(p) \/ CloseSession(p)

\* The interval job or the forced update calls run_update_cycle.
StartCycle(p) == \E b \in BotChoices(p) : MayStart(p) /\ Start(p, b)

NextOverlap ==
    \/ \E p \in Invocations : StartCycle(p)
    \/ \E p \in Invocations : OverlapStep(p)

SpecOverlap == InitOverlap /\ [][NextOverlap]_vars

\* The cycle has read the stored digest, gone on to synchronize and has
\* not committed.
Synchronizing(p) ==
    /\ pc[p] \in {"sync_classes", "flush_classes", "sync_teachers",
                  "flush_teachers", "delete_schedule", "insert_schedule",
                  "delete_subs", "insert_subs", "commit"}
    /\ ~trace[p].committed

\* C27: nothing guards the cycle against a second invocation: whatever the
\* other invocation is doing, an invocation that is not running can start,
\* and one that has fetched can read the stored digest.
C27_NoMutualExclusion ==
    \A p \in Invocations :
        /\ pc[p] = "idle" => ENABLED StartCycle(p)
        /\ pc[p] = "read_hash" => ENABLED ReadHash(p)

\* The scheduled run and the forced run have both read the digest and gone
\* on, and neither has committed.
C27_Witness ==
    /\ Synchronizing("scheduled") /\ Synchronizing("manual")
    /\ local["manual"].bot
    /\ local["scheduled"].old_hash = local["manual"].old_hash

\* The substitution rows of the store are the substitutions of the payload,
\* for the classes it lists.
HoldsSubstitutionsOf(store, raw) ==
    LET subs == SelectSeq(normalize_substitutions(raw).rows,
                          LAMBDA x : x.class_id \in ListedClasses(raw))
    IN  /\ Len(store.substitutions) = Len(subs)
        /\ \A i \in 1..Len(subs) :
              /\ ExternalIdOf(store.classes, store.substitutions[i].class_id)
                    = subs[i].class_id
              /\ [store.substitutions[i] EXCEPT !.class_id = 0]
                    = [subs[i] EXCEPT !.class_id = 0]

\* C28: with cycles overlapping, the committed store never holds two
\* classes with one external id, and its lesson and substitution rows are
\* those one cycle on the last committed payload writes, each once.
C28_OverlapKeepsStoreConsistent ==
    /\ \A i, j \in 1..Len(db.classes) :
          db.classes[i].external_id = db.classes[j].external_id => i = j
    /\ last_synced.present =>
          /\ HoldsLessonsOf(db, last_synced.raw)
          /\ HoldsSubstitutionsOf(db, last_synced.raw)

\* Two cycles took the payload that introduces class 7, both having read
\* the digest of the payload before: one has committed the two classes, the
\* other loaded the classes before that commit and is at its flush, where
\* its own insert of the class is refused on the committed table.
C28_Witness ==
    \E p, q \in Invocations :
        /\ p # q
        /\ local[p].raw_data = PayloadB /\ local[q].raw_data = PayloadB
        /\ local[p].old_hash = local[q].old_hash /\ local[p].old_hash # << >>
        /\ trace[p].committed /\ db = trace[p].post
        /\ pc[q] = "flush_classes"
        /\ Len(db.classes) = 2 /\ Len(local[q].view.classes) = 1
        /\ ~FlushClassesOnto(db.classes, local[q].view.classes,
                             normalize_classes(PayloadB).rows).ok

\* The users a cycle's send_message call reached.
Delivered(p) == Elems(trace[p].attempted) \ trace[p].failed

\* C29: of two cycles that fetched the same payload and read the same old
\* digest, at most one notifies: no subscriber gets the notification of
\* one change from both.
C29_OneBroadcastPerChange ==
    \A p, q \in Invocations :
        (/\ p # q
         /\ Running(p) /\ Running(q)
         /\ local[p].raw_data = local[q].raw_data
         /\ local[p].old_hash = local[q].old_hash)
            => Delivered(p) \cap Delivered(q) = {}

(***************************************************************************)
(* The decoding of the asset on its own.                                   *)
(***************************************************************************)
\* Length of the text between the outer braces.
MaxMiddle == 4

RECURSIVE TextsUpTo(_)
TextsUpTo(n) ==
    IF n = 0 THEN {<< >>}
    ELSE LET shorter == TextsUpTo(n - 1)
         IN  shorter \cup {Append(t, c) : t \in shorter, c \in Tokens}

\* Asset texts: any tokens, bare or between an opening and a closing brace.
DecodeInputs ==
    LET middles == TextsUpTo(MaxMiddle)
    IN  middles \cup {<<"{">> \o m \o <<"}">> : m \in middles}

InitDecode ==
    /\ db = EmptyStore
    /\ users = [u \in TelegramIds |-> "absent"]
    /\ pc = [p \in Invocations |-> "idle"]
    /\ local = [p \in Invocations |-> IdleLocal]
    /\ trace = [p \in Invocations |-> IdleTrace]
    /\ last_synced = NeverSynced
    /\ seen = NothingSeen
    /\ \E text \in DecodeInputs :
          probe = [stage |-> "text", js_content |-> text,
                   result |-> [decodes |-> 0, ok |-> FALSE]]

\* Steps 4 and 5 of fetch_schedule_data on the text.
ApplyDecode ==
    /\ probe.stage = "text"
    /\ probe' = [probe EXCEPT !.stage = "decoded",
                              !.result = Decode(probe.js_content)]
    /\ UNCHANGED <<db, users, pc, local, trace, last_synced, seen>>

SpecDecode == InitDecode /\ [][ApplyDecode]_vars

\* The positions of the text the repair is to take out: a comma, and the
\* whitespace after it, when nothing but whitespace stands between the comma
\* and the next closing brace or bracket.
Repaired(text) ==
    {k \in 1..Len(text) :
        \E c \in 1..k, e \in (k + 1)..Len(text) :
            /\ text[c] = ","
            /\ text[e] \in {"}", "]"}
            /\ \A m \in (c + 1)..(e - 1) : text[m] = " "}

\* The text without these positions.
RECURSIVE Without(_, _, _)
Without(text, k, gone) ==
    IF k > Len(text) THEN << >>
    ELSE (IF k \in gone THEN << >> ELSE <<text[k]>>) \o Without(text, k + 1, gone)

\* C31: the text is decoded once when the strict decode succeeds and twice
\* when it fails, never more; the second decode is of the text with the
\* commas that stand, whitespace apart, directly before a closing brace or
\* bracket removed, one comma for each such closer; data comes out exactly
\* when one of the two decodes succeeds, and a text with no object is not
\* decoded at all.
C31_DecodeAtMostTwice ==
    probe.stage = "decoded" =>
        LET text == probe.js_content
            json_str == JsonStr(text)
        IN  /\ probe.result.decodes \in 0..2
            /\ probe.result.decodes = 0 <=> ~HasObject(text)
            /\ probe.result.decodes = 1 <=>
                  (HasObject(text) /\ StrictDecodes(json_str))
            /\ probe.result.decodes = 1 => probe.result.ok
            /\ probe.result.decodes = 0 => ~probe.result.ok
            /\ probe.result.decodes = 2 =>
                  /\ Cleanup(json_str) = Without(json_str, 1, Repaired(json_str))
                  /\ probe.result.ok
                        = StrictDecodes(Without(json_str, 1, Repaired(json_str)))

\* The strict decode of a text failed, the repair took a comma and the
\* whitespace between it and the closer out, and the second decode succeeded.
C31_Witness ==
    /\ probe.stage = "decoded"
    /\ probe.result = [decodes |-> 2, ok |-> TRUE]
    /\ \E k \in Repaired(JsonStr(probe.js_content)) :
          JsonStr(probe.js_content)[k] = " "

(***************************************************************************)
(* Further properties of the cycle.                                        *)
(***************************************************************************)
\* The cycle of p read the digest and found no record.
FirstSync(p) == trace[p].hash_reads = 1 /\ ~trace[p].pre.meta.present

\* C32: a cycle that fetched a payload and found no digest record compares
\* the payload's digest with the empty string and so never takes the
\* unchanged path; when it commits, the store holds the lessons of the
\* payload and the one digest record, written once with the payload's
\* digest; and when it ends as synced and was given the bot, it has read the
\* subscribers and sent to each of them.
C32_FirstCycleSynchronizes ==
    \A p \in Invocations :
        FirstSync(p) =>
            /\ trace[p].outcome \in {"running", "synced", "failed"}
            /\ local[p].old_hash = << >>
            /\ local[p].new_hash # << >>
            /\ trace[p].committed =>
                  /\ trace[p].hash_writes = 1
                  /\ db.meta = [present |-> TRUE, value |-> last_synced.hash]
                  /\ HoldsLessonsOf(db, last_synced.raw)
                  /\ HoldsSubstitutionsOf(db, last_synced.raw)
            /\ (pc[p] = "finally" /\ trace[p].outcome = "synced") =>
                  /\ trace[p].committed
                  /\ trace[p].selected = local[p].bot
                  /\ local[p].bot => Elems(trace[p].attempted) = trace[p].enabled

\* The first cycle on an empty store, given the bot, stored a lesson and the
\* digest record and sent the notification to a subscriber.
C32_Witness ==
    \E p \in Invocations :
        /\ FirstSync(p) /\ pc[p] = "finally" /\ trace[p].outcome = "synced"
        /\ local[p].bot /\ trace[p].attempted # << >>
        /\ trace[p].pre = EmptyStore
        /\ db.meta.present /\ db.schedules # << >>

(***************************************************************************)
(* The one-shot run, then the interval job.                                *)
(***************************************************************************)
\* stage "one_shot": verify_system has still to run its cycle; "later": it
\* has, first and raw being what the cycle did and the payload it fetched.
InitOneShot ==
    /\ db = EmptyStore
    /\ users = [u \in TelegramIds |-> IF u = 1 THEN "on" ELSE "absent"]
    /\ pc = [p \in Invocations |-> "idle"]
    /\ local = [p \in Invocations |-> IdleLocal]
    /\ trace = [p \in Invocations |-> IdleTrace]
    /\ last_synced = NeverSynced
    /\ seen = NothingSeen
    /\ probe = [stage |-> "one_shot", first |-> IdleTrace, raw |-> NoData]

\* verify_system line 25: run_update_cycle(bot=None).
StartOneShot ==
    /\ probe.stage = "one_shot"
    /\ Start("manual", FALSE)

\* The cycle of verify_system returns.
CloseOneShot ==
    /\ pc["manual"] = "finally"
    /\ pc' = [pc EXCEPT !["manual"] = "idle"]
    /\ local' = [local EXCEPT !["manual"] =
                    [IdleLocal EXCEPT
                        !.http_open = close_session(local["manual"].http_open)]]
    /\ trace' = [trace EXCEPT !["manual"] = IdleTrace]
    /\ seen' = NothingSeen
    /\ probe' = [stage |-> "later", first |-> trace["manual"],
                 raw |-> local["manual"].raw_data]
    /\ UNCHANGED <<db, users, last_synced>>

\* The interval job fires, with the bot.
StartJob ==
    /\ probe.stage = "later"
    /\ Start("scheduled", TRUE)

\* The steps of a cycle between its start and its return.
InCycle(p) ==
    \/ Fetch(p) \/ ReadHash(p)
    \/ SyncClassesStep(p) \/ SyncTeachersStep(p)
    \/ DeleteSchedule(p) \/ InsertScheduleStep(p)
    \/ DeleteSubstitutions(p) \/ InsertSubstitutionsStep(p)
    \/ Commit(p) \/ StoreFault(p)
    \/ SelectUsers(p) \/ Send(p) \/ Exit(p)

NextOneShot ==
    \/ StartOneShot
    \/ CloseOneShot
    \/ StartJob
    \/ CloseSession("scheduled")
    \/ \E p \in Invocations : InCycle(p)

SpecOneShot == InitOneShot /\ [][NextOneShot]_vars

\* The one-shot cycle committed and never read the subscribers.
SyncedSilently ==
    /\ probe.stage = "later"
    /\ probe.first.committed /\ probe.first.outcome = "synced"
    /\ ~probe.first.selected /\ probe.first.attempted = << >>

\* C34: a cycle without the bot that synchronizes commits the payload's
\* digest and sends nothing; a later cycle with the bot that starts on the
\* store it left and fetches the same payload ends unchanged and sends
\* nothing either.
C34_SilentSyncIsNeverAnnounced ==
    /\ \A p \in Invocations :
          (Running(p) /\ ~local[p].bot) =>
              /\ ~trace[p].selected /\ trace[p].attempted = << >>
              /\ trace[p].committed =>
                    /\ trace[p].outcome = "synced"
                    /\ db.meta = [present |-> TRUE, value |-> local[p].new_hash]
    /\ \A q \in Invocations :
          (/\ SyncedSilently
           /\ local[q].bot /\ trace[q].hash_reads = 1
           /\ trace[q].pre = probe.first.post
           /\ local[q].raw_data = probe.raw) =>
              /\ pc[q] = "finally" /\ trace[q].outcome = "unchanged"
              /\ ~trace[q].selected /\ trace[q].attempted = << >>
              /\ db = probe.first.post

\* The one-shot run stored lessons with a user subscribed; the interval job
\* then fetched the same payload and ended unchanged.
C34_Witness ==
    /\ SyncedSilently
    /\ pc["scheduled"] = "finally" /\ trace["scheduled"].outcome = "unchanged"
    /\ trace["scheduled"].pre = probe.first.post
    /\ local["scheduled"].raw_data = probe.raw
    /\ db.schedules # << >>
    /\ \E u \in TelegramIds : users[u] = "on"

(***************************************************************************)
(* The interval job on its own, with failing cycles.                       *)
(***************************************************************************)
\* {"TEACHERS": null}: normalize_teachers raises.
PayloadNullTeachers == [PayloadA EXCEPT !.TEACHERS = Null]

\* What the job fetches: payloads that synchronize, one whose second class
\* is refused by the store, one that normalization fails on.
JobPayloads == {PayloadA, PayloadB, PayloadDup, PayloadNullTeachers}

\* The one-shot run is not part of this: the interval job runs from the
\* start.
InitJob ==
    /\ db = EmptyStore
    /\ users = [u \in TelegramIds |-> IF u = 1 THEN "on" ELSE "absent"]
    /\ pc = [p \in Invocations |-> "idle"]
    /\ local = [p \in Invocations |-> IdleLocal]
    /\ trace = [p \in Invocations |-> IdleTrace]
    /\ last_synced = NeverSynced
    /\ seen = NothingSeen
    /\ probe = [stage |-> "later", first |-> IdleTrace, raw |-> NoData]

\* fetch_schedule_data as a whole, for the job.
FetchJob ==
    /\ pc["scheduled"] = "fetch_page"
    /\ \E data \in JobPayloads \cup {NoData} :
          AfterFetch("scheduled", data,
              [trace["scheduled"] EXCEPT
                  !.fetch = IF HasData(data) THEN "ok" ELSE "failed"])
    /\ UNCHANGED <<users, last_synced, seen, probe>>

\* A step of the job's cycle up to its `finally`.
JobStep ==
    \/ StoreFault("scheduled")
    \/ FetchJob \/ ReadHash("scheduled")
    \/ SyncClassesStep("scheduled") \/ SyncTeachersStep("scheduled")
    \/ DeleteSchedule("scheduled") \/ InsertScheduleStep("scheduled")
    \/ DeleteSubstitutions("scheduled") \/ InsertSubstitutionsStep("scheduled")
    \/ Commit("scheduled")
    \/ SelectUsers("scheduled") \/ Send("scheduled") \/ Exit("scheduled")

\* run_update_cycle returns to the scheduler.
JobReturns == CloseSession("scheduled")

NextJob == StartJob \/ JobStep \/ JobReturns

\* The awaited calls of a cycle complete or raise, and the IntervalTrigger
\* fires again once the job has returned.
SpecJob ==
    /\ InitJob /\ [][NextJob]_vars
    /\ WF_vars(StartJob) /\ WF_vars(JobStep) /\ WF_vars(JobReturns)

\* The job's cycle has failed: the fetch gave nothing, or an exception was
\* caught.
JobFailed ==
    /\ pc["scheduled"] = "finally"
    /\ trace["scheduled"].outcome \in {"no_data", "failed"}

\* C35: a cycle of the interval job that has started returns to the
\* scheduler, and after a cycle that failed, in the fetch, in the
\* normalization, in a write to the store or in reading the subscribers,
\* the job returns and a later cycle starts.
C35_FailedCycleReturns ==
    /\ Running("scheduled") ~> (pc["scheduled"] = "idle")
    /\ JobFailed ~> (pc["scheduled"] = "fetch_page")

\* The cycle failed in normalize_teachers, after it had written a class, and
\* is about to return.
C35_Witness ==
    /\ JobFailed
    /\ local["scheduled"].raw_data = PayloadNullTeachers
    /\ trace["scheduled"].outcome = "failed"
    /\ trace["scheduled"].writes >= 1 /\ trace["scheduled"].normalized = 2

(***************************************************************************)
(* Two cycles in a row, each on its payload.                               *)
(***************************************************************************)
InitLookup ==
    /\ db = EmptyStore
    /\ users = [u \in TelegramIds |-> "absent"]
    /\ pc = [p \in Invocations |-> "idle"]
    /\ local = [p \in Invocations |-> IdleLocal]
    /\ trace = [p \in Invocations |-> IdleTrace]
    /\ last_synced = NeverSynced
    /\ seen = NothingSeen
    /\ \E a \in LookupPayloads, b \in LookupPayloads :
          probe = [stage |-> "first", a |-> a, b |-> b, pre |-> EmptyStore,
                   first |-> "none", second |-> "none"]

\* The first cycle has ended as the record says.
FirstEnds(cycle) ==
    /\ db' = cycle.store
    /\ probe' = [probe EXCEPT !.stage = "second", !.first = cycle.outcome]

\* The second cycle has ended as the record says.
SecondEnds(cycle) ==
    /\ db' = cycle.store
    /\ probe' = [probe EXCEPT !.stage = "done", !.pre = db,
                              !.second = cycle.outcome]

FirstCycle ==
    /\ probe.stage = "first"
    /\ FirstEnds(run_update_cycle(db, probe.a))
    /\ UNCHANGED <<users, pc, local, trace, last_synced, seen>>

SecondCycle ==
    /\ probe.stage = "second"
    /\ SecondEnds(run_update_cycle(db, probe.b))
    /\ UNCHANGED <<users, pc, local, trace, last_synced, seen>>

NextLookup == FirstCycle \/ SecondCycle

SpecLookup == InitLookup /\ [][NextLookup]_vars

\* The payloads differ, and in SUBJECTS or ROOMS only.
OnlyLookupsDiffer(a, b) ==
    /\ a # b
    /\ [a EXCEPT !.SUBJECTS = Absent, !.ROOMS = Absent]
          = [b EXCEPT !.SUBJECTS = Absent, !.ROOMS = Absent]

\* The lesson rows of the store carry the labels the payload resolves to.
HoldsLabelsOf(store, raw) ==
    LET lessons == SelectSeq(normalize_schedule(raw).rows,
                             LAMBDA l : l.class_id \in ListedClasses(raw))
    IN  /\ Len(store.schedules) = Len(lessons)
        /\ \A i \in 1..Len(lessons) :
              /\ store.schedules[i].subject_name = lessons[i].subject
              /\ store.schedules[i].teacher_name = lessons[i].teacher
              /\ store.schedules[i].room_number = lessons[i].room

\* C33: when the second payload differs from the first, synchronized one in
\* SUBJECTS or ROOMS only, the second cycle finds the stored digest, ends
\* unchanged and leaves the store as it was: the lesson rows keep the
\* subject and room labels resolved from the first payload.
C33_LookupOnlyChangeIgnored ==
    (probe.stage = "done" /\ probe.first = "synced"
        /\ OnlyLookupsDiffer(probe.a, probe.b)) =>
        /\ CycleHash[probe.b] = db.meta.value
        /\ probe.second = "unchanged"
        /\ db = probe.pre
        /\ HoldsLabelsOf(db, probe.a)

\* The second payload names the subject and the room of a stored lesson
\* differently, and the store still holds the first payload's labels.
C33_Witness ==
    /\ probe.stage = "done" /\ probe.first = "synced"
    /\ OnlyLookupsDiffer(probe.a, probe.b)
    /\ db.schedules # << >>
    /\ ~HoldsLabelsOf(db, probe.b)
    /\ \E l \in Elems(normalize_schedule(probe.b).rows) :
          /\ l.subject # db.schedules[1].subject_name
          /\ l.room # db.schedules[1].room_number
          /\ l.day = db.schedules[1].day_of_week
          /\ l.number = db.schedules[1].lesson_number


(***************************************************************************)
(* The labels of one lesson slot: normalize_schedule applied to a payload  *)
(* with one slot whose "s", "t" and "r" arrays are absent, empty or hold   *)
(* up to two ids, empty ones, ones the lookup table holds and ones it does *)
(* not, with the three tables present or absent.                           *)
(***************************************************************************)
SubjectTable == << <<"036", "Math">>, <<"037", "Art">> >>

TeacherTable == << <<"044", "Ivanov">>, <<"045", "Petrov">> >>

RoomTable == << <<"005", "Hall">>, <<"006", "Lab">> >>

\* The arrays over the ids of a table, an id it does not hold and "".
IdArraysOf(table) ==
    LET ids == {"", table[1][1], table[2][1], "099"}
    IN  {<< >>} \cup {<<a>> : a \in ids} \cup {<<a, b>> : a \in ids, b \in ids}

\* A key of the slot entry: left out, or given with one of the arrays.
SlotField(key, table) ==
    {[given |-> FALSE, ids |-> << >>, entry |-> << >>]}
        \cup {[given |-> TRUE, ids |-> a, entry |-> << <<key, Lst(a)>> >>] :
                 a \in IdArraysOf(table)}

\* {"CLASSES": {"5": "10A"}, "CLASS_SCHEDULE": {"60": {"5": {"101": slot}}}}
\* with the three lookup tables given or left out.
NamesPayload(s, t, r, tables) ==
    RawData(Obj(<< <<"5", "10A">> >>),
            IF tables THEN Obj(TeacherTable) ELSE Absent,
            Obj(<< <<"60", << <<"5", Obj(<< <<"101", s.entry \o t.entry \o r.entry>> >>)>> >> >> >>),
            Absent,
            IF tables THEN Obj(SubjectTable) ELSE Absent,
            IF tables THEN Obj(RoomTable) ELSE Absent, FALSE)

InitNames ==
    /\ db = EmptyStore
    /\ users = [u \in TelegramIds |-> "absent"]
    /\ pc = [p \in Invocations |-> "idle"]
    /\ local = [p \in Invocations |-> IdleLocal]
    /\ trace = [p \in Invocations |-> IdleTrace]
    /\ last_synced = NeverSynced
    /\ seen = NothingSeen
    /\ \E s \in SlotField("s", SubjectTable), t \in SlotField("t", TeacherTable),
          r \in SlotField("r", RoomTable), tables \in BOOLEAN :
          probe = [stage |-> "names_in", s |-> s, t |-> t, r |-> r,
                   tables |-> tables, raw |-> NamesPayload(s, t, r, tables),
                   result |-> Raised]

\* normalize_schedule on the payload.
ApplyNames ==
    /\ probe.stage = "names_in"
    /\ probe' = [probe EXCEPT !.stage = "names_out",
                              !.result = normalize_schedule(probe.raw)]
    /\ UNCHANGED <<db, users, pc, local, trace, last_synced, seen>>

SpecNames == InitNames /\ [][ApplyNames]_vars

\* The name an id contributes: the table's value for it, the id without one.
NameOf(id, table) ==
    IF \E i \in 1..Len(table) : table[i][1] = id
    THEN table[CHOOSE i \in 1..Len(table) : table[i][1] = id][2]
    ELSE id

\* The label of an id array, built from the left: empty ids are passed
\* over, every name but the first is preceded by ", ".
RECURSIVE LabelFrom(_, _, _)
LabelFrom(ids, table, first) ==
    IF ids = << >> THEN ""
    ELSE IF Head(ids) = "" THEN LabelFrom(Tail(ids), table, first)
    ELSE (IF first THEN "" ELSE ", ") \o NameOf(Head(ids), table)
             \o LabelFrom(Tail(ids), table, FALSE)

LabelOf(field, table, tables) ==
    LabelFrom(field.ids, IF tables THEN table ELSE << >>, TRUE)

\* C36: the subject, teacher and room labels of the emitted lesson are each
\* the names of the array's non-empty ids, in array order, joined with ", ";
\* an id the table holds gives its name, any other id gives itself, and an
\* empty or absent array gives "".
C36_LabelsResolveAndJoin ==
    probe.stage = "names_out" =>
        /\ probe.result.ok /\ Len(probe.result.rows) = 1
        /\ probe.result.rows[1].subject = LabelOf(probe.s, SubjectTable, probe.tables)
        /\ probe.result.rows[1].teacher = LabelOf(probe.t, TeacherTable, probe.tables)
        /\ probe.result.rows[1].room = LabelOf(probe.r, RoomTable, probe.tables)
        /\ \A f \in {"s", "t", "r"} :
              (\A i \in 1..Len(probe[f].ids) : probe[f].ids[i] = "") =>
                  probe.result.rows[1][IF f = "s" THEN "subject"
                                       ELSE IF f = "t" THEN "teacher"
                                       ELSE "room"] = ""

\* Two known subjects in the order of the array, a teacher id the table does
\* not hold after an empty one, and no "r" key.
C36_Witness ==
    /\ probe.stage = "names_out" /\ probe.tables
    /\ probe.s.ids = <<"037", "036">> /\ probe.result.rows[1].subject = "Art, Math"
    /\ probe.t.ids = <<"", "099">> /\ probe.result.rows[1].teacher = "099"
    /\ ~probe.r.given /\ probe.result.rows[1].room = ""

(***************************************************************************)
(* Three cycles in a row: one on a payload with lessons, two on payloads   *)
(* that may be empty or carry no lessons.                                  *)
(***************************************************************************)
InitWipe ==
    /\ db = EmptyStore
    /\ users = [u \in TelegramIds |-> "absent"]
    /\ pc = [p \in Invocations |-> "idle"]
    /\ local = [p \in Invocations |-> IdleLocal]
    /\ trace = [p \in Invocations |-> IdleTrace]
    /\ last_synced = NeverSynced
    /\ seen = NothingSeen
    /\ \E a \in {PayloadA, PayloadB}, b \in WipePayloads, c \in WipePayloads :
          probe = [todo |-> <<a, b, c>>, log |-> << >>]

\* The cycle on the next payload has ended as the record says.
WipeEnds(cycle) ==
    /\ db' = cycle.store
    /\ probe' = [todo |-> Tail(probe.todo),
                 log |-> Append(probe.log,
                            [raw |-> Head(probe.todo), pre |-> db,
                             post |-> cycle.store, outcome |-> cycle.outcome])]

WipeCycle ==
    /\ probe.todo # << >>
    /\ WipeEnds(run_update_cycle(db, Head(probe.todo)))
    /\ UNCHANGED <<users, pc, local, trace, last_synced, seen>>

SpecWipe == InitWipe /\ [][WipeCycle]_vars

\* The payload is not {} and has no CLASS_SCHEDULE key, or an empty one.
NoLessonsGiven(raw) ==
    /\ ~IsEmptyDict(raw)
    /\ \/ raw.CLASS_SCHEDULE.kind = "absent"
       \/ raw.CLASS_SCHEDULE = Obj(<< >>)

\* C37: a cycle whose fetch gave {} ends as one whose fetch failed and
\* leaves the store, its lesson and substitution rows included, as it was;
\* a cycle on a payload that is not {} but has no or an empty CLASS_SCHEDULE,
\* and whose digest is not the stored one, synchronizes, and what it commits
\* holds no lesson row.
C37_EmptyPayloadKeepsLessons ==
    \A i \in 1..Len(probe.log) :
        LET c == probe.log[i]
        IN  /\ IsEmptyDict(c.raw) =>
                  /\ c.outcome = "no_data"
                  /\ c.post = c.pre
            /\ (NoLessonsGiven(c.raw)
                  /\ (c.pre.meta.present => c.pre.meta.value # CycleHash[c.raw])) =>
                  /\ c.outcome \in {"synced", "failed"}
                  /\ c.outcome = "synced" =>
                        /\ c.post.schedules = << >>
                        /\ c.post.meta = [present |-> TRUE,
                                          value |-> CycleHash[c.raw]]
                  /\ c.outcome = "failed" => c.post = c.pre

\* The second cycle got {} and kept the lessons and the substitution of the
\* first; the third got a payload without CLASS_SCHEDULE and committed a
\* store without lessons.
C37_Witness ==
    /\ Len(probe.log) = 3
    /\ probe.log[1].outcome = "synced"
    /\ IsEmptyDict(probe.log[2].raw)
    /\ probe.log[2].post.schedules # << >>
    /\ probe.log[2].post.substitutions # << >>
    /\ NoLessonsGiven(probe.log[3].raw)
    /\ probe.log[3].outcome = "synced"
    /\ probe.log[3].pre.schedules # << >> /\ db.schedules = << >>

(***************************************************************************)
(* normalize_teachers and normalize_schedule applied to two payloads that  *)
(* carry entries the normalizers pass over: teachers with an empty name,   *)
(* slot keys that are not decimal, class schedules that are not objects.   *)
(***************************************************************************)
SkipTeachers ==
    {Obj(<< <<"044", "Ivanov">> >>),
     Obj(<< <<"044", "Ivanov">>, <<"045", "">> >>),
     Obj(<< <<"043", "">>, <<"044", "Ivanov">>, <<"045", "">> >>)}

SkipSchedules ==
    {Obj(<< <<"60", << <<"5", Obj(<<Lesson101>>)>> >> >> >>),
     Obj(<< <<"60", << <<"5", Obj(<< <<"x1", SlotData(<<"036">>, << >>, << >>)>>,
                                    Lesson101 >>)>> >> >> >>),
     Obj(<< <<"60", << <<"5", Obj(<<Lesson101>>)>>, <<"7", NotObj>> >> >> >>),
     Obj(<< <<"60", << <<"5", Obj(<< Lesson101,
                                    <<"x1", SlotData(<<"036">>, << >>, << >>)>> >>)>>,
                       <<"7", NotObj>> >> >> >>)}

SkipInputs ==
    {RawData(Obj(<< <<"5", "10A">> >>), teachers, schedule, Absent,
             Obj(<< <<"036", "Math">> >>), Absent, FALSE) :
        teachers \in SkipTeachers, schedule \in SkipSchedules}

InitSkips ==
    /\ db = EmptyStore
    /\ users = [u \in TelegramIds |-> "absent"]
    /\ pc = [p \in Invocations |-> "idle"]
    /\ local = [p \in Invocations |-> IdleLocal]
    /\ trace = [p \in Invocations |-> IdleTrace]
    /\ last_synced = NeverSynced
    /\ seen = NothingSeen
    /\ \E a \in SkipInputs, b \in SkipInputs :
          probe = [stage |-> "skips_in", a |-> a, b |-> b,
                   teachers_a |-> Raised, teachers_b |-> Raised,
                   schedule_a |-> Raised, schedule_b |-> Raised]

\* The two normalizers on each payload; what they return is all a caller
\* gets.
ApplySkips ==
    /\ probe.stage = "skips_in"
    /\ probe' = [probe EXCEPT !.stage = "skips_out",
                              !.teachers_a = normalize_teachers(probe.a),
                              !.teachers_b = normalize_teachers(probe.b),
                              !.schedule_a = normalize_schedule(probe.a),
                              !.schedule_b = normalize_schedule(probe.b)]
    /\ UNCHANGED <<db, users, pc, local, trace, last_synced, seen>>

SpecSkips == InitSkips /\ [][ApplySkips]_vars

\* The TEACHERS entries with an empty name.
SkippedTeachers(raw) ==
    Cardinality({i \in 1..Len(raw.TEACHERS.items) : raw.TEACHERS.items[i][2] = ""})

\* The class schedules of the first period that are not objects, and the
\* slot keys of the others that are not decimal.
SkippedSlots(raw) ==
    LET full_schedule == raw.CLASS_SCHEDULE.items[1][2]
    IN  Cardinality({c \in 1..Len(full_schedule) : full_schedule[c][2].kind # "map"})
          + Cardinality({ck \in (1..Len(full_schedule)) \X (1..2) :
                /\ full_schedule[ck[1]][2].kind = "map"
                /\ ck[2] <= Len(full_schedule[ck[1]][2].items)
                /\ full_schedule[ck[1]][2].items[ck[2]][1] \notin DecimalKeys})

\* C38: every entry a normalizer passes over is counted and the count can be
\* read from what the normalizer returns: two runs that return the same
\* result have passed over the same number of entries.
C38_SkipCountObservable ==
    probe.stage = "skips_out" =>
        /\ probe.teachers_a = probe.teachers_b =>
              SkippedTeachers(probe.a) = SkippedTeachers(probe.b)
        /\ probe.schedule_a = probe.schedule_b =>
              SkippedSlots(probe.a) = SkippedSlots(probe.b)

=========================================================================
